---- MODULE Spec2Model ----
(***************************************************************************)
(* Session/event coordination core of the radiology backend:               *)
(*   - the study_opened / study_closed request handlers (api/session.py)   *)
(*     over the Session store, the Event Log and the Redis stream          *)
(*     (services/session_management_service.py);                           *)
(*   - the consumer-group reader RedisService.read_stream                  *)
(*     (services/redis_service.py);                                        *)
(*   - the connection registry WebSocketService                            *)
(*     (services/websocket_service.py).                                    *)
(* Every await of the handlers is one step, so concurrent requests and     *)
(* consumers interleave exactly at the code's suspension points. A call    *)
(* of a registry method is a task, and every Redis command it awaits is a  *)
(* step of its own. SpecRegistry and SpecSequence run the calls one after  *)
(* the other (in SpecRegistry the wall clock advances between the calls    *)
(* and between the commands of a call and a command can raise, in          *)
(* SpecSequence the caller keeps what the last call returned);             *)
(* SpecRace, SpecConcurrent and SpecEndpoints run them concurrently.       *)
(***************************************************************************)
EXTENDS Integers, Sequences, FiniteSets, TLC

\* ------------------------------------------------------------------ bounds
MaxReqs == 2
MaxStream == 2
count == 2
MaxTime == 2
\* the commands of the registry that raise in one behaviour
MaxFaults == 1
\* the maximum retained stream length (max_len of add_to_stream), scaled
max_len == 1
MaxQueryReqs == 1
MaxTasks == 2

\* --------------------------------------------------------------- constants
max_errors == 5
\* WebSocketService.connection_expire_seconds (3600 in the source), in ticks
\* of the clock
connection_expire_seconds == 2

\* ------------------------------------------------------------- input sets
None == "None"
Users == {"u1"}
Markers == {"s1"}
ReqIds == 1..MaxReqs
Tasks == 1..MaxTasks
Consumers == {"c1", "c2"}
ConnIds == {"k1", "k2"}
UserIds == {"u1", "u2"}
WsAppTypes == {"dictation", "viewer"}
MaxAges == {0, 1}
StreamNames == {"dictation_stream", "radiology_stream"}

\* user_info as get_current_user hands it to the handlers
Claims == [sub : Users, session_state : Markers \cup {None}]

\* a field of a JSON body: absent, or a string as its characters (for target,
\* a list of strings)
Missing == [given |-> FALSE, v |-> <<>>]
Given(v) == [given |-> TRUE, v |-> v]

\* request bodies: the strings a client may send in a field, as characters
FieldInputs ==
    { Missing, Given(<<>>), Given(<<"\r">>), Given(<<"\t", "\\xa0">>),
      Given(<<" ", "a", "\f">>), Given(<<"a">>) }
FewInputs == { Missing, Given(<<" ">>), Given(<<"a">>) }

\* request bodies: the target lists a client may send
TargetInputs ==
    { <<>>, <<"dictation", "worklist">>, <<"viewer", "bogus">> }

\* uuid.uuid4: a fresh value at every call; request r draws its session id
\* (line 66 of get_or_create_session) and its event id (line 120 of
\* create_session_event) from values no other call returns
uuid4(r, what) ==
    IF what = "session"
    THEN << "sid1", "sid2", "sid3", "sid4", "sid5", "sid6" >>[r]
    ELSE << "ev1", "ev2", "ev3", "ev4", "ev5", "ev6" >>[r]

AppType == {"dictation", "viewer", "worklist", "admin"}
valid_apps == <<"viewer", "dictation", "worklist", "admin">>

VARIABLES
    \* relational store
    sessions,       \* session_id -> [userid, created_at, last_updated]
    events,         \* committed session_events rows, in commit order
    clock,          \* the server clock behind datetime.now / func.now
    \* stream transport
    redis_client,   \* SessionManagementService.redis_client
    stream,         \* dictation_stream: the entries appended by xadd
    other_streams,  \* the entries of every other stream, by stream name
    trimmed,        \* stream name -> how many entries XADD MAXLEN has evicted
    \* one study_opened / study_closed request each
    reqs,
    \* consumer group of read_stream
    group,          \* None, or [last_delivered, pel] of the consumer group
    cons,           \* consumer name -> the state of its read_stream generator
    caller,         \* stream id -> how the caller's processing of it ended
    \* configuration
    redis_stream_name,  \* settings.redis_stream_name (REDIS_STREAM_NAME)
    \* connection registry of WebSocketService
    redis_pool,     \* WebSocketService.redis_pool
    ws_connection,  \* the hashes ws_connection:<connection_id>, with their expiry
    ws_user,        \* the sets ws_user:<user_id>, with their expiry
    now,            \* the wall clock of the registry, in ticks
    hset_at,        \* connection_id -> when the last HSET wrote its hash (history)
    faults,         \* how many commands of the registry have raised so far
    ret,            \* the last call of a registry method and what it returned
    request,        \* the request body that pydantic parsed last, and the result
    tasks           \* the calls of registry methods in flight, each between two awaits

dbVars == <<sessions, events, clock>>
reqVars == <<sessions, events, clock, redis_client, reqs>>
consVars == <<group, cons, caller>>
cfgVars == <<redis_stream_name>>
xaddVars == <<other_streams, trimmed>>
wsVars == <<redis_pool, ws_connection, ws_user, now, hset_at, faults, ret>>
valVars == <<request>>
raceVars == <<tasks>>
vars == <<sessions, events, clock, redis_client, stream, other_streams, trimmed, reqs,
          group, cons, caller, redis_stream_name,
          redis_pool, ws_connection, ws_user, now, hset_at, faults, ret, request, tasks>>

\* ------------------------------------------------------------- validators

\* StudyOpenedRequest.validate_target_apps / StudyClosedRequest.validate_target_apps
RECURSIVE all_valid_apps(_, _)
all_valid_apps(v, i) ==
    IF i > Len(v) THEN TRUE
    ELSE IF \E k \in 1..Len(valid_apps) : valid_apps[k] = v[i]
         THEN all_valid_apps(v, i + 1)
         ELSE FALSE

validate_target_apps_first_only(v) ==
    IF Len(v) = 0 THEN FALSE
    ELSE \E k \in 1..Len(valid_apps) : valid_apps[k] = v[1]

validate_target_apps(v) ==
    IF Len(v) = 0 THEN FALSE
    ELSE all_valid_apps(v, 1)

\* the characters str.strip() removes (those str.isspace() holds of); a
\* character TLA+ has no escape for is written as its Python escape
Whitespace ==
    {" ", "\t", "\n", "\r", "\f", "\\x0b", "\\x1c", "\\x1d", "\\x1e", "\\x1f",
     "\\x85", "\\xa0", "\\u1680", "\\u2000", "\\u2001", "\\u2002", "\\u2003",
     "\\u2004", "\\u2005", "\\u2006", "\\u2007", "\\u2008", "\\u2009", "\\u200a",
     "\\u2028", "\\u2029", "\\u202f", "\\u205f", "\\u3000"}

\* str.strip(): leading and trailing whitespace removed
RECURSIVE lstrip(_)
lstrip(v) ==
    IF v = <<>> THEN v
    ELSE IF Head(v) \in Whitespace THEN lstrip(Tail(v)) ELSE v

RECURSIVE rstrip(_)
rstrip(v) ==
    IF v = <<>> THEN v
    ELSE IF v[Len(v)] \in Whitespace THEN rstrip(SubSeq(v, 1, Len(v) - 1)) ELSE v

strip(v) == rstrip(lstrip(v))

validate_non_empty_strings_no_strip(v) ==
    IF v = <<>>
    THEN [ok |-> FALSE, v |-> <<>>]
    ELSE [ok |-> TRUE, v |-> strip(v)]

\* validate_non_empty_strings of StudyOpenedRequest (lines 162-169) and, with
\* the same body, of StudyClosedRequest (lines 201-206): ValueError for an
\* empty or all-whitespace string, else the stripped string
validate_non_empty_strings(v) ==
    IF v = <<>> \/ strip(v) = <<>>
    THEN [ok |-> FALSE, v |-> <<>>]
    ELSE [ok |-> TRUE, v |-> strip(v)]

ValidationError == [valid |-> FALSE]

\* StudyOpenedRequest(**body): every field is required (Field(...)); the five
\* string fields of the validator are checked and stripped, patient_dob is
\* taken as it is, target goes through validate_target_apps
StudyOpenedRequest(body) ==
    LET checked == {"study_id", "patient_id", "accession_number",
                    "current_study_name", "source"}
        required == checked \cup {"patient_dob", "target"}
    IN IF \E f \in required : ~body[f].given THEN ValidationError
       ELSE IF \E f \in checked : ~validate_non_empty_strings(body[f].v).ok
       THEN ValidationError
       ELSE IF ~validate_target_apps(body.target.v) THEN ValidationError
       ELSE [valid |-> TRUE,
             study_id |-> validate_non_empty_strings(body.study_id.v).v,
             patient_id |-> validate_non_empty_strings(body.patient_id.v).v,
             patient_dob |-> body.patient_dob.v,
             accession_number |->
                 validate_non_empty_strings(body.accession_number.v).v,
             current_study_name |->
                 validate_non_empty_strings(body.current_study_name.v).v,
             source |-> validate_non_empty_strings(body.source.v).v,
             target |-> body.target.v]

\* StudyClosedRequest(**body): study_id, source and target are its only
\* fields; whatever else the body carries is ignored
StudyClosedRequest(body) ==
    LET checked == {"study_id", "source"}
        required == checked \cup {"target"}
    IN IF \E f \in required : ~body[f].given THEN ValidationError
       ELSE IF \E f \in checked : ~validate_non_empty_strings(body[f].v).ok
       THEN ValidationError
       ELSE IF ~validate_target_apps(body.target.v) THEN ValidationError
       ELSE [valid |-> TRUE,
             study_id |-> validate_non_empty_strings(body.study_id.v).v,
             source |-> validate_non_empty_strings(body.source.v).v,
             target |-> body.target.v]

\* no body parsed yet
NoRequest == [model |-> None, body |-> None, parsed |-> ValidationError]

\* FastAPI builds the handler's request argument from the JSON body, one
\* body of bodies
ParseStudyOpened(bodies) ==
    /\ request.model = None
    /\ \E body \in bodies :
          request' = [model |-> "StudyOpenedRequest", body |-> body,
                      parsed |-> StudyOpenedRequest(body)]
    /\ UNCHANGED <<reqVars, stream, consVars, cfgVars, xaddVars, wsVars, raceVars>>

ParseStudyClosed(bodies) ==
    /\ request.model = None
    /\ \E body \in bodies :
          request' = [model |-> "StudyClosedRequest", body |-> body,
                      parsed |-> StudyClosedRequest(body)]
    /\ UNCHANGED <<reqVars, stream, consVars, cfgVars, xaddVars, wsVars, raceVars>>

\* ------------------------------------------------------------ the requests

\* a request that has not arrived; the handler's locals are dropped again when
\* the request ends
IdleReq ==
    [pc |-> "idle", kind |-> None, user_info |-> None, target |-> <<>>,
     session_id |-> None, found |-> FALSE, touch |-> 0,
     event_id |-> None, event_datetime |-> 0,
     xadd |-> None, redis_event_id |-> None,
     outcome |-> "pending", error |-> None]

\* Session.events, loaded by selectinload in get_session_state: the rows of
\* one session
list_events(sid) == { e \in events : e.session_id = sid }

EventIds(rows) == { e.event_id : e \in rows }

get_session_state_by_user(user_info) ==
    { e \in events : e.userid = user_info["sub"] }

\* get_session_state: the events of the response
get_session_state(user_info) ==
    LET session_id == user_info.session_state IN
    IF session_id = None THEN {}
    ELSE IF session_id \notin DOMAIN sessions THEN {}
    ELSE list_events(session_id)

\* The "events" list of the response of get_session_state, lines 256-267:
\* session.events in the order the relationship loads it. Session.events has
\* no order_by and selectinload issues a SELECT without ORDER BY, so the rows
\* come in whatever order the database returns them: every enumeration of
\* the rows is a possible list.
get_session_state_events(user_info) ==
    LET rows == get_session_state(user_info)
        n == Cardinality(rows)
    IN { seq \in [1..n -> rows] : \A i, j \in 1..n : seq[i] = seq[j] => i = j }

\* one entry of the "events" list, lines 258-267
format_event(event) ==
    [event_id |-> event.event_id,
     event |-> event.event,
     datetime |-> [str |-> event.datetime],
     target |-> event.target]

\* what the endpoint GET /session/state returned last
Answer(user_info, response) ==
    /\ ret' = [op |-> "get_session_state", connection_id |-> None,
               user_id |-> user_info.sub, user_info |-> user_info,
               value |-> response]
    /\ UNCHANGED <<redis_pool, ws_connection, ws_user, now, hset_at, faults>>
    /\ UNCHANGED <<consVars, cfgVars, xaddVars, valVars, raceVars>>

GetSessionState_creates(user_info) ==
    LET session_id == user_info.session_state
        user_id == user_info.sub
    IN /\ session_id # None
       /\ session_id \notin DOMAIN sessions
       /\ sessions' = session_id :> [userid |-> user_id, created_at |-> clock,
                                     last_updated |-> clock] @@ sessions
       /\ Answer(user_info, [status |-> 200, session_id |-> session_id,
                             userid |-> user_id, events |-> <<>>])
       /\ UNCHANGED <<events, clock, redis_client, reqs, stream>>

\* SessionManagementService.get_session_state behind the endpoint
\* get_session_state of api/session.py: one SELECT, nothing written
GetSessionState(user_info) ==
    LET session_id == user_info.session_state
        user_id == user_info.sub
    IN /\ IF session_id = None
          THEN Answer(user_info, [status |-> 200, session_id |-> None,
                                  userid |-> user_id, events |-> <<>>])
          ELSE IF session_id \notin DOMAIN sessions
          THEN Answer(user_info, [status |-> 200, session_id |-> session_id,
                                  userid |-> user_id, events |-> <<>>])
          ELSE \E rows \in get_session_state_events(user_info) :
                  Answer(user_info,
                         [status |-> 200, session_id |-> session_id,
                          userid |-> sessions[session_id].userid,
                          events |-> [i \in 1..Len(rows) |-> format_event(rows[i])]])
       /\ UNCHANGED <<reqVars, stream>>

\* db.execute raises: the endpoint answers with HTTPException 500
GetSessionStateError(user_info) ==
    /\ user_info.session_state # None
    /\ Answer(user_info, [status |-> 500])
    /\ UNCHANGED <<reqVars, stream>>

\* the end of a request: its response, or the HTTP error
End(r, outcome, error, how, id) ==
    reqs' = [reqs EXCEPT ![r] = [@ EXCEPT !.pc = "done", !.outcome = outcome,
                                           !.error = error, !.xadd = how,
                                           !.redis_event_id = id,
                                           !.found = FALSE, !.touch = 0,
                                           !.event_datetime = 0]]

\* a handler's exception: study_opened / study_closed turn it into HTTP 500 and
\* get_session_db rolls the open transaction back
Fail(r, what) == End(r, "error", what, None, None)

\* The request arrives. FastAPI builds the pydantic model before the handler
\* runs: a validation error ends the request with a client error. Otherwise
\* the handler calls get_or_create_session, lines 63-74: the session id and
\* the select. The select opens the transaction, and its time is what
\* func.now() gives the columns created_at and last_updated of a row inserted
\* in this transaction (session_models.py lines 52-61); for an existing row it
\* is the time of the assignment of last_updated (line 87) that runs when the
\* select returns. touch keeps that time until the commit.
Arrive(r, kind, ui, tgt) ==
    /\ reqs[r].pc = "idle"
    /\ \A q \in ReqIds : q < r => reqs[q].pc # "idle"
    /\ IF ~validate_target_apps(tgt)
       THEN /\ reqs' = [reqs EXCEPT ![r] = [@ EXCEPT !.pc = "done", !.target = tgt,
                                               !.outcome = "rejected",
                                               !.error = "ValidationError"]]
            /\ clock' = clock
       ELSE LET marker == ui.session_state
                sid == IF marker = None THEN uuid4(r, "session") ELSE marker
                existing == sid \in DOMAIN sessions
            IN /\ clock' = clock + 1
               /\ reqs' = [reqs EXCEPT ![r] =
                      [@ EXCEPT !.pc = "commit_session", !.kind = kind,
                                !.user_info = ui, !.target = tgt,
                                !.session_id = sid, !.found = existing,
                                !.touch = clock]]
    /\ UNCHANGED <<sessions, events, redis_client, stream>>
    /\ UNCHANGED <<consVars, cfgVars, xaddVars, valVars, raceVars, wsVars>>

study_opened(r) ==
    \E ui \in Claims, tgt \in TargetInputs : Arrive(r, "open_study", ui, tgt)

study_closed(r) ==
    \E ui \in Claims, tgt \in TargetInputs : Arrive(r, "close_study", ui, tgt)

CommitSession_touch_resets(r) ==
    /\ reqs[r].pc = "commit_session"
    /\ LET sid == reqs[r].session_id IN
       IF ~reqs[r].found
       THEN IF sid \in DOMAIN sessions
            THEN /\ Fail(r, "session:IntegrityError")
                 /\ UNCHANGED <<sessions, clock>>
            ELSE /\ sessions' = sessions @@
                        (sid :> [userid |-> reqs[r].user_info.sub,
                                 created_at |-> reqs[r].touch,
                                 last_updated |-> reqs[r].touch])
                 /\ clock' = clock
                 /\ reqs' = [reqs EXCEPT ![r] = [@ EXCEPT !.pc = "create_event"]]
       ELSE /\ sessions' = [sessions EXCEPT ![sid] =
                                [@ EXCEPT !.last_updated = reqs[r].touch,
                                          !.created_at = reqs[r].touch]]
            /\ clock' = clock
            /\ reqs' = [reqs EXCEPT ![r] = [@ EXCEPT !.pc = "create_event"]]
    /\ UNCHANGED <<events, redis_client, stream>>
    /\ UNCHANGED <<consVars, cfgVars, xaddVars, valVars, raceVars, wsVars>>

\* get_or_create_session, lines 76-89: the commit of the insert or of the
\* touch. The inserted row carries the time at which its transaction began,
\* which can be earlier than the times of rows committed in between.
CommitSession(r) ==
    /\ reqs[r].pc = "commit_session"
    /\ LET sid == reqs[r].session_id IN
       IF ~reqs[r].found
       THEN IF sid \in DOMAIN sessions
            THEN \* the primary key is taken: the insert is refused
                 /\ Fail(r, "session:IntegrityError")
                 /\ UNCHANGED <<sessions, clock>>
            ELSE /\ sessions' = sessions @@
                        (sid :> [userid |-> reqs[r].user_info.sub,
                                 created_at |-> reqs[r].touch,
                                 last_updated |-> reqs[r].touch])
                 /\ clock' = clock
                 /\ reqs' = [reqs EXCEPT ![r] = [@ EXCEPT !.pc = "create_event"]]
       ELSE /\ sessions' = [sessions EXCEPT ![sid] =
                                [@ EXCEPT !.last_updated = reqs[r].touch]]
            /\ clock' = clock
            /\ reqs' = [reqs EXCEPT ![r] = [@ EXCEPT !.pc = "create_event"]]
    /\ UNCHANGED <<events, redis_client, stream>>
    /\ UNCHANGED <<consVars, cfgVars, xaddVars, valVars, raceVars, wsVars>>

CommitSessionError_proceeds(r) ==
    /\ reqs[r].pc = "commit_session"
    /\ reqs' = [reqs EXCEPT ![r] = [@ EXCEPT !.pc = "create_event",
                                             !.error = "session:StorageError"]]
    /\ UNCHANGED <<sessions, events, clock, redis_client, stream>>
    /\ UNCHANGED <<consVars, cfgVars, xaddVars, valVars, raceVars, wsVars>>

\* await db.commit() of get_or_create_session raises (lines 83, 88): the
\* store has refused the commit, or it has run the commit and its answer is
\* lost, and then the row, or its last_updated, is stored although the
\* request ends with the error
CommitSessionError(r) ==
    /\ reqs[r].pc = "commit_session"
    /\ Fail(r, "session:StorageError")
    /\ LET sid == reqs[r].session_id IN
       \/ sessions' = sessions
       \/ /\ ~reqs[r].found
          /\ sid \notin DOMAIN sessions
          /\ sessions' = sessions @@
                 (sid :> [userid |-> reqs[r].user_info.sub,
                          created_at |-> reqs[r].touch,
                          last_updated |-> reqs[r].touch])
       \/ /\ reqs[r].found
          /\ sessions' = [sessions EXCEPT ![sid] =
                             [@ EXCEPT !.last_updated = reqs[r].touch]]
    /\ UNCHANGED <<events, clock, redis_client, stream>>
    /\ UNCHANGED <<consVars, cfgVars, xaddVars, valVars, raceVars, wsVars>>

\* create_session_event, lines 120-137: event_id, event_datetime, db.add
CreateEvent(r) ==
    /\ reqs[r].pc = "create_event"
    /\ reqs' = [reqs EXCEPT ![r] = [@ EXCEPT !.pc = "commit_event",
                                             !.event_id = uuid4(r, "event"),
                                             !.event_datetime = clock]]
    /\ clock' = clock + 1
    /\ UNCHANGED <<sessions, events, redis_client, stream>>
    /\ UNCHANGED <<consVars, cfgVars, xaddVars, valVars, raceVars, wsVars>>

\* the row of create_session_event, lines 125-135
SessionEvent(r) ==
    [event_id |-> reqs[r].event_id,
     session_id |-> reqs[r].session_id,
     userid |-> reqs[r].user_info.sub,
     event |-> reqs[r].kind,
     datetime |-> reqs[r].event_datetime,
     target |-> reqs[r].target]

CommitEvent_replaces(r) ==
    /\ reqs[r].pc = "commit_event"
    /\ events' = {SessionEvent(r)}
    /\ reqs' = [reqs EXCEPT ![r] = [@ EXCEPT !.pc = "publish"]]
    /\ UNCHANGED <<sessions, clock, redis_client, stream>>
    /\ UNCHANGED <<consVars, cfgVars, xaddVars, valVars, raceVars, wsVars>>

\* create_session_event, line 138: the commit of the event row
CommitEvent(r) ==
    /\ reqs[r].pc = "commit_event"
    /\ events' = events \cup {SessionEvent(r)}
    /\ reqs' = [reqs EXCEPT ![r] = [@ EXCEPT !.pc = "publish"]]
    /\ UNCHANGED <<sessions, clock, redis_client, stream>>
    /\ UNCHANGED <<consVars, cfgVars, xaddVars, valVars, raceVars, wsVars>>

CommitEventError_then_publish(r) ==
    /\ reqs[r].pc = "commit_event"
    /\ reqs' = [reqs EXCEPT ![r] = [@ EXCEPT !.pc = "publish",
                                             !.error = "event:StorageError"]]
    /\ UNCHANGED <<sessions, events, clock, redis_client, stream>>
    /\ UNCHANGED <<consVars, cfgVars, xaddVars, valVars, raceVars, wsVars>>

\* await db.commit() of create_session_event raises (line 138): the
\* exception leaves the handler before publish_to_redis_stream is reached.
\* The store has refused the commit, or it has run the commit and its answer
\* is lost, and then the event row is stored
CommitEventError(r) ==
    /\ reqs[r].pc = "commit_event"
    /\ Fail(r, "event:StorageError")
    /\ \/ events' = events
       \/ events' = events \cup {SessionEvent(r)}
    /\ UNCHANGED <<sessions, clock, redis_client, stream>>
    /\ UNCHANGED <<consVars, cfgVars, xaddVars, valVars, raceVars, wsVars>>

\* publish_to_redis_stream, lines 176-184
StreamData(r) ==
    [event |-> reqs[r].kind,
     user_id |-> reqs[r].user_info.sub,
     session_id |-> reqs[r].session_id,
     event_id |-> reqs[r].event_id,
     target |-> reqs[r].target]

\* the response of study_opened / study_closed, lines 116-122
Respond(r, how, id) == End(r, "ok", reqs[r].error, how, id)

\* publish_to_redis_stream, lines 170-172: no client
PublishNoClient(r) ==
    /\ reqs[r].pc = "publish"
    /\ redis_client = None
    /\ Respond(r, "no_client", None)
    /\ UNCHANGED <<sessions, events, clock, redis_client, stream>>
    /\ UNCHANGED <<consVars, cfgVars, xaddVars, valVars, raceVars, wsVars>>

\* publish_to_redis_stream, lines 187-194: xadd appends the entry
PublishOk_twice(r) ==
    /\ reqs[r].pc = "publish"
    /\ redis_client # None
    /\ stream' = Append(Append(stream, StreamData(r)), StreamData(r))
    /\ Respond(r, "added", "msg")
    /\ UNCHANGED <<sessions, events, clock, redis_client>>
    /\ UNCHANGED <<consVars, cfgVars, xaddVars, valVars, raceVars, wsVars>>

PublishOk(r) ==
    /\ reqs[r].pc = "publish"
    /\ redis_client # None
    /\ stream' = Append(stream, StreamData(r))
    /\ Respond(r, "added", "msg")
    /\ UNCHANGED <<sessions, events, clock, redis_client>>
    /\ UNCHANGED <<consVars, cfgVars, xaddVars, valVars, raceVars, wsVars>>

PublishRaised_propagates(r) ==
    /\ reqs[r].pc = "publish"
    /\ redis_client # None
    /\ End(r, "error", "publish:RedisError", "raised", None)
    /\ UNCHANGED <<sessions, events, clock, redis_client, stream>>
    /\ UNCHANGED <<consVars, cfgVars, xaddVars, valVars, raceVars, wsVars>>

\* publish_to_redis_stream, lines 196-198: xadd raises, None is returned.
\* The server has not run XADD, or it has run it and its answer is lost, and
\* then the entry is in the stream
PublishRaised(r) ==
    /\ reqs[r].pc = "publish"
    /\ redis_client # None
    /\ Respond(r, "raised", None)
    /\ \/ stream' = stream
       \/ stream' = Append(stream, StreamData(r))
    /\ UNCHANGED <<sessions, events, clock, redis_client>>
    /\ UNCHANGED <<consVars, cfgVars, xaddVars, valVars, raceVars, wsVars>>

\* ------------------------------------------------------------ read_stream

\* a read_stream generator that has not been started
IdleCons ==
    [pc |-> "idle", batch |-> <<>>, error_count |-> 0, delay |-> 0,
     cancelled |-> FALSE, outcome |-> "running"]

\* the consumer group: its cursor and pending list, and the ids xreadgroup has
\* handed out so far
NoGroup == [exists |-> FALSE, last_delivered |-> 0, pel |-> {}, delivered |-> {}]
NewGroup == [NoGroup EXCEPT !.exists = TRUE]

\* the entries of the group's pending list
Pending(id) == \E p \in group.pel : p.id = id
Delivered(id) == group.exists /\ id \in group.delivered
Acked(id) == Delivered(id) /\ ~Pending(id)

\* min(error_count * 2, 30), line 374
backoff(n) == IF n * 2 < 30 THEN n * 2 ELSE 30

\* the entries of a stream: publish_to_redis_stream writes "dictation_stream"
\* (line 188), add_to_stream the stream it is given
StreamOf(stream_name) ==
    IF stream_name = "dictation_stream" THEN stream ELSE other_streams[stream_name]

\* XADD numbers the entries of a stream in the order they arrive and trimming
\* evicts the oldest: entry i of the stream has the id trimmed + i
LastId(stream_name) == trimmed[stream_name] + Len(StreamOf(stream_name))

\* the number of entries the streams have taken so far
RECURSIVE AppendedTo(_)
AppendedTo(names) ==
    IF names = {} THEN 0
    ELSE LET n == CHOOSE x \in names : TRUE
         IN LastId(n) + AppendedTo(names \ {n})

\* the data of the n-th event a producer emits
EventData(n) ==
    [user_id |-> "u1", session_id |-> "s1", event_id |-> uuid4(n, "event"),
     target |-> <<"dictation", "worklist">>]

\* an event reaches the stream: the xadd of publish_to_redis_stream as the
\* consumers see it
Published ==
    /\ AppendedTo(StreamNames) < MaxStream
    /\ stream' = Append(stream,
                        [event |-> "open_study"]
                            @@ EventData(LastId("dictation_stream") + 1))
    /\ UNCHANGED <<reqVars, cfgVars, xaddVars, valVars, raceVars, wsVars, consVars>>

\* XADD key MAXLEN ~ maxlen: the entry is appended, then the oldest entries are
\* evicted; the approximate form never cuts below maxlen and may keep more
xadd(entries, fields, maxlen) ==
    LET added == Append(entries, fields)
        excess == IF Len(added) > maxlen THEN Len(added) - maxlen ELSE 0
    IN { [entries |-> SubSeq(added, n + 1, Len(added)), evicted |-> n] :
         n \in 0..excess }

\* add_to_stream, lines 277-286: xadd(stream_name, {"event": event_type,
\* **data}, maxlen=max_len, approximate=True); an error is raised again and
\* leaves the stream as it was
add_to_stream(stream_name, event_type, data, maxlen) ==
    /\ AppendedTo(StreamNames) < MaxStream
    /\ \E after \in xadd(StreamOf(stream_name), [event |-> event_type] @@ data, maxlen) :
          /\ trimmed' = [trimmed EXCEPT ![stream_name] = @ + after.evicted]
          /\ IF stream_name = "dictation_stream"
             THEN stream' = after.entries /\ other_streams' = other_streams
             ELSE /\ other_streams' = [other_streams EXCEPT ![stream_name] = after.entries]
                  /\ stream' = stream
    /\ UNCHANGED <<reqVars, cfgVars, valVars, raceVars, wsVars, consVars>>

\* the generator ends: a return (StopAsyncIteration) or an exception
Stop(c, how) == [cons[c] EXCEPT !.pc = "done", !.outcome = how, !.batch = <<>>]

\* read_stream, lines 315-327: the first step of the generator
read_stream(c, consumer_name) ==
    /\ cons[c].pc = "idle"
    /\ IF consumer_name = None
       THEN cons' = [cons EXCEPT ![c] = Stop(c, "ValueError")]
       ELSE cons' = [cons EXCEPT ![c] = [@ EXCEPT !.pc = "init_group"]]
    /\ UNCHANGED <<reqVars, cfgVars, xaddVars, valVars, raceVars, wsVars, stream, group, caller>>

init_consumer_group_resets(c) ==
    /\ cons[c].pc = "init_group"
    /\ group' = NewGroup
    /\ cons' = [cons EXCEPT ![c] = [@ EXCEPT !.pc = "read", !.error_count = 0]]
    /\ UNCHANGED <<reqVars, cfgVars, xaddVars, valVars, raceVars, wsVars, stream, caller>>

\* init_consumer_group: xgroup_create(id="0", mkstream=True); BUSYGROUP is
\* swallowed
init_consumer_group(c) ==
    /\ cons[c].pc = "init_group"
    /\ group' = IF group.exists THEN group
                ELSE NewGroup
    /\ cons' = [cons EXCEPT ![c] = [@ EXCEPT !.pc = "read", !.error_count = 0]]
    /\ UNCHANGED <<reqVars, cfgVars, xaddVars, valVars, raceVars, wsVars, stream, caller>>

\* init_consumer_group, lines 254-256: any other error is raised again. The
\* server has not run XGROUP CREATE, or it has run it and its answer is lost
InitGroupError(c) ==
    /\ cons[c].pc = "init_group"
    /\ cons' = [cons EXCEPT ![c] = Stop(c, "RedisError")]
    /\ \/ group' = group
       \/ group' = IF group.exists THEN group ELSE NewGroup
    /\ UNCHANGED <<reqVars, cfgVars, xaddVars, valVars, raceVars, wsVars, stream, caller>>

\* the ids xreadgroup(">", count) hands out next; read_stream reads
\* REDIS_STREAM_NAME (line 315)
NewIds ==
    LET first == trimmed[redis_stream_name] + 1
        last == LastId(redis_stream_name)
        lo == IF group.last_delivered + 1 < first
              THEN first ELSE group.last_delivered + 1
        hi == IF last < lo + count - 1 THEN last ELSE lo + count - 1
    IN [i \in 1..(hi - lo + 1) |-> lo + i - 1]

\* lines 334-358: xreadgroup returns (messages, or nothing after the block
\* time); the first message, or the sentinel, is yielded
XReadGroup_no_reset(c) ==
    /\ cons[c].pc = "read"
    /\ group.exists
    /\ LET new == NewIds IN
       IF Len(new) > 0
       THEN /\ group' = [group EXCEPT
                            !.last_delivered = new[Len(new)],
                            !.pel = @ \cup { [id |-> new[i], consumer |-> c] :
                                             i \in 1..Len(new) },
                            !.delivered = @ \cup { new[i] : i \in 1..Len(new) }]
            /\ cons' = [cons EXCEPT ![c] = [@ EXCEPT !.pc = "yield_msg",
                                                     !.batch = new]]
       ELSE /\ group' = group
            /\ cons' = [cons EXCEPT ![c] = [@ EXCEPT !.pc = "yield_none"]]
    /\ UNCHANGED <<reqVars, cfgVars, xaddVars, valVars, raceVars, wsVars, stream, caller>>

XReadGroup(c) ==
    /\ cons[c].pc = "read"
    /\ group.exists
    /\ LET new == NewIds IN
       IF Len(new) > 0
       THEN /\ group' = [group EXCEPT
                            !.last_delivered = new[Len(new)],
                            !.pel = @ \cup { [id |-> new[i], consumer |-> c] :
                                             i \in 1..Len(new) },
                            !.delivered = @ \cup { new[i] : i \in 1..Len(new) }]
            /\ cons' = [cons EXCEPT ![c] = [@ EXCEPT !.pc = "yield_msg",
                                                     !.batch = new,
                                                     !.error_count = 0]]
       ELSE /\ group' = group
            /\ cons' = [cons EXCEPT ![c] = [@ EXCEPT !.pc = "yield_none",
                                                     !.error_count = 0]]
    /\ UNCHANGED <<reqVars, cfgVars, xaddVars, valVars, raceVars, wsVars, stream, caller>>

\* lines 364-374: the handler of an error in the loop body
OnError(c) ==
    LET n == cons[c].error_count + 1 IN
    IF n >= max_errors
    THEN [Stop(c, "returned") EXCEPT !.error_count = n]
    ELSE [cons[c] EXCEPT !.pc = "sleep", !.error_count = n, !.delay = backoff(n),
                         !.batch = <<>>]

\* xreadgroup raises. The server has not run XREADGROUP, or it has run it
\* and its answer is lost: the ids are pending under the consumer's name and
\* no caller has seen them
XReadGroupError(c) ==
    /\ cons[c].pc = "read"
    /\ cons' = [cons EXCEPT ![c] = OnError(c)]
    /\ \/ group' = group
       \/ LET new == NewIds IN
          /\ group.exists
          /\ Len(new) > 0
          /\ group' = [group EXCEPT
                          !.last_delivered = new[Len(new)],
                          !.pel = @ \cup { [id |-> new[i], consumer |-> c] :
                                           i \in 1..Len(new) },
                          !.delivered = @ \cup { new[i] : i \in 1..Len(new) }]
    /\ UNCHANGED <<reqVars, cfgVars, xaddVars, valVars, raceVars, wsVars, stream, caller>>

\* asyncio.sleep of line 374 is over
Wake(c) ==
    /\ cons[c].pc = "sleep"
    /\ cons' = [cons EXCEPT ![c] = [@ EXCEPT !.pc = "read", !.delay = 0]]
    /\ UNCHANGED <<reqVars, cfgVars, xaddVars, valVars, raceVars, wsVars, stream, group, caller>>

\* the inner for loop goes on to the next message of the batch, or the while
\* loop to the next read
NextMessage(c) ==
    LET rest == Tail(cons[c].batch) IN
    [cons[c] EXCEPT !.batch = rest,
                    !.pc = IF Len(rest) > 0 THEN "yield_msg" ELSE "read"]

\* the caller's processing returned and it asks for the next item: the
\* generator resumes after the yield
CallerResume(c) ==
    /\ cons[c].pc \in {"yield_msg", "yield_none"}
    /\ IF cons[c].pc = "yield_msg"
       THEN /\ cons' = [cons EXCEPT ![c] = [@ EXCEPT !.pc = "ack"]]
            /\ caller' = [caller EXCEPT !.returned = @ \cup {Head(cons[c].batch)}]
       ELSE /\ cons' = [cons EXCEPT ![c] = [@ EXCEPT !.pc = "read"]]
            /\ caller' = caller
    /\ UNCHANGED <<reqVars, cfgVars, xaddVars, valVars, raceVars, wsVars, stream, group>>

CallerThrow_acks(c) ==
    /\ cons[c].pc \in {"yield_msg", "yield_none"}
    /\ IF cons[c].pc = "yield_msg"
       THEN /\ cons' = [cons EXCEPT ![c] = NextMessage(c)]
            /\ caller' = [caller EXCEPT !.raised = @ \cup {Head(cons[c].batch)}]
            /\ group' = [group EXCEPT
                            !.pel = { p \in @ : p.id # Head(cons[c].batch) }]
       ELSE /\ cons' = [cons EXCEPT ![c] = OnError(c)]
            /\ caller' = caller
            /\ group' = group
    /\ UNCHANGED <<reqVars, cfgVars, xaddVars, valVars, raceVars, wsVars, stream>>

\* the caller's processing raises into the generator at the yield (athrow):
\* lines 353-356 log it for a message, lines 364-374 count it for the sentinel
CallerThrow(c) ==
    /\ cons[c].pc \in {"yield_msg", "yield_none"}
    /\ IF cons[c].pc = "yield_msg"
       THEN /\ cons' = [cons EXCEPT ![c] = NextMessage(c)]
            /\ caller' = [caller EXCEPT !.raised = @ \cup {Head(cons[c].batch)}]
       ELSE /\ cons' = [cons EXCEPT ![c] = OnError(c)]
            /\ caller' = caller
    /\ UNCHANGED <<reqVars, cfgVars, xaddVars, valVars, raceVars, wsVars, stream, group>>

\* the caller's processing raises in its own loop body: the generator is never
\* resumed and is closed (GeneratorExit passes both except clauses)
CallerClose(c) ==
    /\ cons[c].pc \in {"yield_msg", "yield_none"}
    /\ cons' = [cons EXCEPT ![c] = Stop(c, "closed")]
    /\ caller' = IF cons[c].pc = "yield_msg"
                 THEN [caller EXCEPT !.raised = @ \cup {Head(cons[c].batch)}]
                 ELSE caller
    /\ UNCHANGED <<reqVars, cfgVars, xaddVars, valVars, raceVars, wsVars, stream, group>>

\* lines 349-352: xack removes the entry from the pending list
XAck(c) ==
    /\ cons[c].pc = "ack"
    /\ group' = [group EXCEPT !.pel = { p \in @ : p.id # Head(cons[c].batch) }]
    /\ cons' = [cons EXCEPT ![c] = NextMessage(c)]
    /\ UNCHANGED <<reqVars, cfgVars, xaddVars, valVars, raceVars, wsVars, stream, caller>>

\* xack raises: lines 353-356 log it. The server has not run XACK, or it has
\* run it and its answer is lost
XAckError(c) ==
    /\ cons[c].pc = "ack"
    /\ cons' = [cons EXCEPT ![c] = NextMessage(c)]
    /\ \/ group' = group
       \/ group' = [group EXCEPT !.pel = { p \in @ : p.id # Head(cons[c].batch) }]
    /\ UNCHANGED <<reqVars, cfgVars, xaddVars, valVars, raceVars, wsVars, stream, caller>>

\* The task that iterates the generator is cancelled while the generator
\* awaits: CancelledError is raised at that await. The cancel and the command
\* on its way to the server are not ordered: the server either never runs
\* the command, or has run it when the cancel lands and its reply is dropped.
Cancelled(c, how) == [Stop(c, how) EXCEPT !.cancelled = TRUE]

\* line 327 is outside the try statement; XGROUP CREATE may have created the
\* group
CancelInitGroup(c) ==
    /\ cons[c].pc = "init_group"
    /\ cons' = [cons EXCEPT ![c] = Cancelled(c, "CancelledError")]
    /\ \/ group' = group
       \/ group' = IF group.exists THEN group ELSE NewGroup
    /\ UNCHANGED <<reqVars, cfgVars, xaddVars, valVars, raceVars, wsVars, stream, caller>>

\* lines 334 and 360-362; XREADGROUP may have handed the next ids to the
\* consumer: they are pending under its name and no caller has seen them
CancelXReadGroup(c) ==
    /\ cons[c].pc = "read"
    /\ cons' = [cons EXCEPT ![c] = Cancelled(c, "returned")]
    /\ \/ group' = group
       \/ LET new == NewIds IN
          /\ group.exists
          /\ Len(new) > 0
          /\ group' = [group EXCEPT
                          !.last_delivered = new[Len(new)],
                          !.pel = @ \cup { [id |-> new[i], consumer |-> c] :
                                           i \in 1..Len(new) },
                          !.delivered = @ \cup { new[i] : i \in 1..Len(new) }]
    /\ UNCHANGED <<reqVars, cfgVars, xaddVars, valVars, raceVars, wsVars, stream, caller>>

\* line 349: CancelledError is no Exception, so it passes line 353 and is
\* caught at lines 360-362; XACK may have removed the entry from the pending
\* list
CancelXAck(c) ==
    /\ cons[c].pc = "ack"
    /\ cons' = [cons EXCEPT ![c] = Cancelled(c, "returned")]
    /\ \/ group' = group
       \/ group' = [group EXCEPT !.pel = { p \in @ : p.id # Head(cons[c].batch) }]
    /\ UNCHANGED <<reqVars, cfgVars, xaddVars, valVars, raceVars, wsVars, stream, caller>>

\* line 374 is inside the handler of lines 364-374: no clause of the try
\* statement catches what it raises
CancelSleep(c) ==
    /\ cons[c].pc = "sleep"
    /\ cons' = [cons EXCEPT ![c] = Cancelled(c, "CancelledError")]
    /\ UNCHANGED <<reqVars, cfgVars, xaddVars, valVars, raceVars, wsVars, stream, group, caller>>

\* ------------------------------------------------- the connection registry

\* datetime.now(timezone.utc), datetime.isoformat and datetime.fromisoformat:
\* a datetime and the str that isoformat makes of it are different values
utcnow(t) == [datetime |-> t]
isoformat(d) == [str |-> d.datetime]
fromisoformat(s) == [datetime |-> s.str]

\* a - b of Python: defined for two datetimes, TypeError for a str operand
timedelta(a, b) ==
    IF "datetime" \in DOMAIN a /\ "datetime" \in DOMAIN b
    THEN [raised |-> None, total_seconds |-> a.datetime - b.datetime]
    ELSE [raised |-> "TypeError", total_seconds |-> 0]

\* hgetall of a key that does not exist returns an empty dict; a set without
\* members does not exist
NoHash == [exists |-> FALSE]
NoSet == [members |-> {}, expire_at |-> 0]
NoCall == [op |-> None, connection_id |-> None, user_id |-> None, value |-> None]

\* the registry as the Redis commands see it
Registry == [conn |-> ws_connection, user |-> ws_user]

\* a key without a time to live
Persistent == MaxTime + connection_expire_seconds + 1

\* conn_data.get(field): None for a field the hash does not hold
get(conn_data, field) ==
    IF field \in DOMAIN conn_data THEN conn_data[field] ELSE None

\* hset(key, mapping): the fields are set on the hash; a new key has no time
\* to live, an existing one keeps its own and the fields that are not named
hset(conn, c, mapping) ==
    [conn EXCEPT ![c] =
        mapping @@ (IF conn[c].exists THEN conn[c]
                    ELSE [exists |-> TRUE, expire_at |-> Persistent])]

\* expire(key, seconds): nothing happens to a key that does not exist
expire(conn, c, t) ==
    IF conn[c].exists
    THEN [conn EXCEPT ![c].expire_at = t + connection_expire_seconds]
    ELSE conn

sadd_overwrites(user, u, c) ==
    [user EXCEPT ![u] =
        [members |-> {c},
         expire_at |-> IF user[u].members = {} THEN Persistent ELSE @.expire_at]]

\* sadd(key, member): one atomic command of the store
sadd(user, u, c) ==
    [user EXCEPT ![u] =
        [members |-> @.members \cup {c},
         expire_at |-> IF user[u].members = {} THEN Persistent ELSE @.expire_at]]

\* srem; the key goes with its last member
srem(user, u, c) ==
    LET members == user[u].members \ {c} IN
    [user EXCEPT ![u] = IF members = {} THEN NoSet
                        ELSE [@ EXCEPT !.members = members]]

\* register_connection, lines 85-104, run without another call in between:
\* hset + expire of the hash, sadd + expire of the user's set
Registered(reg, connection_id, user_id, app_type, t) ==
    [conn |-> expire(hset(reg.conn, connection_id,
                          [connection_id |-> connection_id, user_id |-> user_id,
                           app_type |-> app_type,
                           connected_at |-> isoformat(utcnow(t)),
                           last_activity |-> isoformat(utcnow(t))]),
                     connection_id, t),
     user |-> [sadd(reg.user, user_id, connection_id) EXCEPT
                  ![user_id].expire_at = t + connection_expire_seconds]]

\* cleanup_stale_connections, lines 413-435, for one hash: is it unregistered?
\* current_time is the str of line 403; a TypeError or ValueError is logged
is_stale(conn_data, current_time, max_age_seconds) ==
    LET last_activity == fromisoformat(conn_data.last_activity)
        age == timedelta(current_time, last_activity)
    IN IF age.raised # None THEN FALSE
       ELSE age.total_seconds > max_age_seconds

\* "except Exception" of the endpoints: HTTPException 500 with the message
HTTP_500(e) == [status |-> 500, detail |-> e]

\* ActiveConnectionsResponse, session_models.py lines 399-408: the field
\* active_connections is a dict, and pydantic refuses any other value
ActiveConnectionsResponse(user_id, active_connections, total_connections) ==
    IF "dict" \in DOMAIN active_connections
    THEN [status |-> 200, user_id |-> user_id,
          active_connections |-> active_connections.dict,
          total_connections |-> total_connections]
    ELSE HTTP_500("active_connections: Input should be a valid dictionary")

\* get_websocket_service and get_session_service of dependencies/utils.py
\* build their singletons as WebSocketService() and SessionService(): the
\* redis_pool of both is the default of __init__, and nothing assigns it later
get_websocket_service == None
get_session_service == None

\* ---------------------------------------------- the calls of the registry

\* Every Redis command of a method is awaited, and the event loop may run
\* another call between two awaits: a task is one call of a method, and one
\* step of it is one Redis command with the code up to the next await.
NotConnected == [connected |-> FALSE, session_id |-> None]

IdleTask ==
    [op |-> None, pc |-> "idle", connection_id |-> None, user_id |-> None,
     app_type |-> None, connection_data |-> NoHash, connection_ids |-> {},
     count |-> 0, outcome |-> "pending", removed |-> FALSE, updated |-> FALSE,
     status |-> NotConnected, connections |-> {}, max_age_seconds |-> 0,
     current_time |-> isoformat(utcnow(0))]

\* what the call returns to its caller, or the exception it raises:
\* notify_dictation_app answers False to every exception (lines 301-303), an
\* endpoint answers 500 (session.py lines 420-427, 450-458, 523-530), and
\* get_active_connections builds its response from the list (lines 444-448)
Value(task) ==
    IF task.outcome = "raised"
    THEN CASE task.op = "notify_dictation_app" -> FALSE
           [] task.op \in {"get_websocket_status", "get_active_connections",
                           "logout_user"}
                 -> HTTP_500("Redis not initialized")
           [] OTHER -> "RuntimeError"
    ELSE IF task.outcome = "failed"
    THEN CASE task.op = "notify_dictation_app" -> FALSE
           [] task.op \in {"get_websocket_status", "get_active_connections",
                           "logout_user"}
                 -> HTTP_500("RedisError")
           [] OTHER -> "RedisError"
    ELSE CASE task.op = "register_connection" -> task.connection_data
           [] task.op = "unregister_connection" -> task.removed
           [] task.op = "update_connection_activity" -> task.updated
           [] task.op \in {"disconnect_user_connections",
                           "cleanup_stale_connections"} -> task.count
           [] task.op = "get_connection_status" -> task.status
           [] task.op = "notify_dictation_app" -> task.status.connected
           [] task.op = "get_websocket_status"
                 -> [status |-> 200, connected |-> task.status.connected,
                     session_id |-> task.status.session_id]
           [] task.op = "get_user_connections" -> [list |-> task.connections]
           [] task.op = "get_active_connections"
                 -> ActiveConnectionsResponse(task.user_id,
                                              [list |-> task.connections],
                                              Cardinality(task.connections))
           [] task.op = "logout_user"
                 -> [status |-> 200, disconnected_websockets |-> task.count]

\* a step of task t that leaves it as task. The step is the HSET of lines 96
\* or 368-372 when it takes the task from the hset to the expire that follows
\* it: hset_at records its time, and forgets the hashes that are gone.
Step(t, task, conn, user) ==
    /\ tasks' = [tasks EXCEPT ![t] = task]
    /\ ws_connection' = conn
    /\ ws_user' = user
    /\ hset_at' = [c \in ConnIds |->
                      IF ~conn[c].exists THEN 0
                      ELSE IF /\ c = tasks[t].connection_id
                              /\ \/ tasks[t].pc = "hset" /\ task.pc = "expire_connection"
                                 \/ tasks[t].pc = "hset_activity" /\ task.pc = "expire_activity"
                      THEN now
                      ELSE hset_at[c]]
    /\ UNCHANGED <<redis_pool, now, faults, ret>>
    /\ UNCHANGED <<reqVars, stream, consVars, cfgVars, xaddVars, valVars>>

\* a call begins: "if not self.redis_pool: raise RuntimeError"
Call(task) ==
    IF redis_pool = None
    THEN [task EXCEPT !.pc = "done", !.outcome = "raised"]
    ELSE task

\* task t has not been used, and the tasks are used in their order
Free(t) ==
    /\ tasks[t].pc = "idle"
    /\ \A q \in Tasks : q < t => tasks[q].pc # "idle"

\* the caller has taken what the call returned
Done(t) ==
    /\ tasks[t].pc = "done"
    /\ tasks' = [tasks EXCEPT ![t] = IdleTask]
    /\ UNCHANGED wsVars
    /\ UNCHANGED <<reqVars, stream, consVars, cfgVars, xaddVars, valVars>>

\* A command of the call raises (the connection to the store is lost, the
\* command times out): "except Exception" logs the error and raises it again
\* (lines 113-115, 151-153, 195-197, 233-235, 268-270, 381-385, 445-447), so
\* the commands the call has sent stay done and the rest of them is never
\* sent. The command that raises has not run; when the call has sent its last
\* command (pc is "done"), the store has run it and its answer is lost.
CommandError(t) ==
    /\ tasks[t].pc # "idle"
    /\ tasks[t].outcome \in {"pending", "returned"}
    /\ faults < MaxFaults
    /\ faults' = faults + 1
    /\ tasks' = [tasks EXCEPT ![t] = [IdleTask EXCEPT !.op = tasks[t].op,
                                                      !.pc = "done",
                                                      !.outcome = "failed",
                                                      !.user_id = tasks[t].user_id]]
    /\ UNCHANGED <<redis_pool, ws_connection, ws_user, now, hset_at, ret>>
    /\ UNCHANGED <<reqVars, stream, consVars, cfgVars, xaddVars, valVars>>

\* the caller has taken what the call returned, and keeps it in ret until
\* its next call has returned
Return(t) ==
    /\ tasks[t].pc = "done"
    /\ tasks' = [tasks EXCEPT ![t] = IdleTask]
    /\ ret' = [op |-> tasks[t].op, connection_id |-> tasks[t].connection_id,
               user_id |-> tasks[t].user_id, value |-> Value(tasks[t])]
    /\ UNCHANGED <<redis_pool, ws_connection, ws_user, now, hset_at, faults>>
    /\ UNCHANGED <<reqVars, stream, consVars, cfgVars, xaddVars, valVars>>

\* "for conn_id in connection_ids": the loop takes any id that it has not
\* taken yet (smembers and scan give no order), or the method returns
Iterate(task, pc) ==
    IF task.connection_ids = {}
    THEN { [task EXCEPT !.pc = "done", !.outcome = "returned",
                        !.connection_id = None] }
    ELSE { [task EXCEPT !.pc = pc, !.connection_id = conn_id,
                        !.connection_ids = @ \ {conn_id}] :
             conn_id \in task.connection_ids }

\* register_connection, lines 81-92: connection_data is built before the
\* first command
register_connection(t, connection_id, user_id, app_type) ==
    /\ Free(t)
    /\ Step(t, Call([IdleTask EXCEPT
                        !.op = "register_connection", !.pc = "hset",
                        !.connection_id = connection_id, !.user_id = user_id,
                        !.app_type = app_type,
                        !.connection_data =
                            [connection_id |-> connection_id,
                             user_id |-> user_id, app_type |-> app_type,
                             connected_at |-> isoformat(utcnow(now)),
                             last_activity |-> isoformat(utcnow(now))]]),
            ws_connection, ws_user)

\* line 96
RegisterHset(t) ==
    /\ tasks[t].pc = "hset"
    /\ Step(t, [tasks[t] EXCEPT !.pc = "expire_connection"],
            hset(ws_connection, tasks[t].connection_id, tasks[t].connection_data),
            ws_user)

\* line 97
RegisterExpireConnection(t) ==
    /\ tasks[t].pc = "expire_connection"
    /\ Step(t, [tasks[t] EXCEPT !.pc = "sadd"],
            expire(ws_connection, tasks[t].connection_id, now),
            ws_user)

\* line 101
RegisterSadd(t) ==
    /\ tasks[t].pc = "sadd"
    /\ Step(t, [tasks[t] EXCEPT !.pc = "expire_user"],
            ws_connection,
            sadd(ws_user, tasks[t].user_id, tasks[t].connection_id))

\* lines 102-111
RegisterExpireUser(t) ==
    /\ tasks[t].pc = "expire_user"
    /\ LET u == tasks[t].user_id IN
       Step(t, [tasks[t] EXCEPT !.pc = "done", !.outcome = "returned"],
            ws_connection,
            IF ws_user[u].members # {}
            THEN [ws_user EXCEPT ![u].expire_at = now + connection_expire_seconds]
            ELSE ws_user)

\* unregister_connection, as a call of its own
unregister_connection(t, connection_id) ==
    /\ Free(t)
    /\ Step(t, Call([IdleTask EXCEPT !.op = "unregister_connection",
                                     !.pc = "hgetall",
                                     !.connection_id = connection_id]),
            ws_connection, ws_user)

\* disconnect_user_connections, lines 250-254
disconnect_user_connections(t, user_id) ==
    /\ Free(t)
    /\ Step(t, Call([IdleTask EXCEPT !.op = "disconnect_user_connections",
                                     !.pc = "smembers", !.user_id = user_id]),
            ws_connection, ws_user)

\* POST /logout, session.py lines 508-514: clear_session of the
\* SessionService, which raises without its pool, then
\* disconnect_user_connections
logout_user(t, user_id) ==
    /\ Free(t)
    /\ Step(t, IF get_session_service = None
               THEN [IdleTask EXCEPT !.op = "logout_user", !.pc = "done",
                                     !.outcome = "raised", !.user_id = user_id]
               ELSE Call([IdleTask EXCEPT !.op = "logout_user",
                                          !.pc = "smembers",
                                          !.user_id = user_id]),
            ws_connection, ws_user)

\* unregister_connection has returned removed: a call of its own is done;
\* inside the loop of disconnect_user_connections (lines 257-259) and of
\* cleanup_stale_connections (lines 425-431) the count is taken and the loop
\* goes on
Unregistered_returns(task, removed) ==
    IF task.op = "unregister_connection"
    THEN { [task EXCEPT !.pc = "done", !.outcome = "returned",
                        !.removed = removed] }
    ELSE Iterate([task EXCEPT !.count = @ + (IF removed THEN 1 ELSE 0)],
                 IF task.op = "cleanup_stale_connections"
                 THEN "hgetall_key" ELSE "hgetall")

\* line 255
DisconnectSmembers(t) ==
    /\ tasks[t].pc = "smembers"
    /\ LET connection_ids == ws_user[tasks[t].user_id].members IN
       \E task \in Iterate([tasks[t] EXCEPT !.connection_ids = connection_ids],
                           "hgetall") :
           Step(t, task, ws_connection, ws_user)

\* lines 131-139: "if connection_data" is false for the empty dict of a
\* missing key, and srem is skipped for a hash without user_id
UnregisterHgetall(t) ==
    /\ tasks[t].pc = "hgetall"
    /\ LET connection_data == ws_connection[tasks[t].connection_id] IN
       IF connection_data.exists
       THEN Step(t, [tasks[t] EXCEPT
                        !.pc = IF get(connection_data, "user_id") # None
                               THEN "srem" ELSE "delete",
                        !.connection_data = connection_data],
                 ws_connection, ws_user)
       ELSE \E task \in Unregistered_returns(tasks[t], FALSE) :
               Step(t, task, ws_connection, ws_user)

UnregisterSrem_skipped(t) ==
    /\ tasks[t].pc = "srem"
    /\ Step(t, [tasks[t] EXCEPT !.pc = "delete"], ws_connection, ws_user)

\* line 141
UnregisterSrem(t) ==
    /\ tasks[t].pc = "srem"
    /\ Step(t, [tasks[t] EXCEPT !.pc = "delete"],
            ws_connection,
            srem(ws_user, tasks[t].connection_data.user_id, tasks[t].connection_id))

\* lines 144-147
UnregisterDelete(t) ==
    /\ tasks[t].pc = "delete"
    /\ \E task \in Unregistered_returns(
                      [tasks[t] EXCEPT !.connection_data = NoHash], TRUE) :
           Step(t, task,
                [ws_connection EXCEPT ![tasks[t].connection_id] = NoHash],
                ws_user)

\* update_connection_activity, lines 361-364
update_connection_activity(t, connection_id) ==
    /\ Free(t)
    /\ Step(t, Call([IdleTask EXCEPT !.op = "update_connection_activity",
                                     !.pc = "exists",
                                     !.connection_id = connection_id]),
            ws_connection, ws_user)

\* lines 365-367 and 379: the store answers exists
UpdateExists(t) ==
    /\ tasks[t].pc = "exists"
    /\ Step(t, IF ws_connection[tasks[t].connection_id].exists
               THEN [tasks[t] EXCEPT !.pc = "now_activity"]
               ELSE [tasks[t] EXCEPT !.pc = "done", !.outcome = "returned",
                                     !.updated = FALSE],
            ws_connection, ws_user)

\* line 371: the call goes on when the answer of exists has reached it, and
\* reads the clock for last_activity then; time passes between the answer of
\* the store and this reading, and between the reading and the hset
UpdateNow(t) ==
    /\ tasks[t].pc = "now_activity"
    /\ Step(t, [tasks[t] EXCEPT
                   !.pc = "hset_activity",
                   !.connection_data = [last_activity |-> isoformat(utcnow(now))]],
            ws_connection, ws_user)

\* lines 368-372: hset of the one field last_activity
UpdateHset(t) ==
    /\ tasks[t].pc = "hset_activity"
    /\ Step(t, [tasks[t] EXCEPT !.pc = "expire_activity"],
            hset(ws_connection, tasks[t].connection_id, tasks[t].connection_data),
            ws_user)

\* lines 374-377
UpdateExpire(t) ==
    /\ tasks[t].pc = "expire_activity"
    /\ Step(t, [tasks[t] EXCEPT !.pc = "done", !.outcome = "returned",
                                !.updated = TRUE],
            expire(ws_connection, tasks[t].connection_id, now),
            ws_user)

\* get_connection_status, lines 169-173
get_connection_status(t, user_id, app_type) ==
    /\ Free(t)
    /\ Step(t, Call([IdleTask EXCEPT !.op = "get_connection_status",
                                     !.pc = "smembers_status",
                                     !.user_id = user_id,
                                     !.app_type = app_type]),
            ws_connection, ws_user)

\* notify_dictation_app, lines 286-288: the status of the user's dictation
\* connection
notify_dictation_app(t, user_id) ==
    /\ Free(t)
    /\ Step(t, Call([IdleTask EXCEPT !.op = "notify_dictation_app",
                                     !.pc = "smembers_status",
                                     !.user_id = user_id,
                                     !.app_type = "dictation"]),
            ws_connection, ws_user)

\* GET /websocket_status/{app_id}, session.py lines 408-410
get_websocket_status(t, user_id, app_id) ==
    /\ Free(t)
    /\ Step(t, Call([IdleTask EXCEPT !.op = "get_websocket_status",
                                     !.pc = "smembers_status",
                                     !.user_id = user_id,
                                     !.app_type = app_id]),
            ws_connection, ws_user)

\* line 173
StatusSmembers(t) ==
    /\ tasks[t].pc = "smembers_status"
    /\ LET connection_ids == ws_user[tasks[t].user_id].members IN
       \E task \in Iterate([tasks[t] EXCEPT !.connection_ids = connection_ids],
                           "hgetall_status") :
           Step(t, task, ws_connection, ws_user)

StatusHgetall_any_app(t) ==
    /\ tasks[t].pc = "hgetall_status"
    /\ LET conn_id == tasks[t].connection_id
           conn_data == ws_connection[conn_id]
       IN IF conn_data.exists
          THEN Step(t, [tasks[t] EXCEPT
                           !.pc = "done", !.outcome = "returned",
                           !.connection_id = None,
                           !.status = [connected |-> TRUE, session_id |-> conn_id]],
                    ws_connection, ws_user)
          ELSE \E task \in Iterate(tasks[t], "hgetall_status") :
                  Step(t, task, ws_connection, ws_user)

\* lines 176-193: the first connection of the type is the answer
StatusHgetall(t) ==
    /\ tasks[t].pc = "hgetall_status"
    /\ LET conn_id == tasks[t].connection_id
           conn_data == ws_connection[conn_id]
       IN IF conn_data.exists /\ get(conn_data, "app_type") = tasks[t].app_type
          THEN Step(t, [tasks[t] EXCEPT
                           !.pc = "done", !.outcome = "returned",
                           !.connection_id = None,
                           !.status = [connected |-> TRUE, session_id |-> conn_id]],
                    ws_connection, ws_user)
          ELSE \E task \in Iterate(tasks[t], "hgetall_status") :
                  Step(t, task, ws_connection, ws_user)

\* get_user_connections, lines 210-214
get_user_connections(t, user_id) ==
    /\ Free(t)
    /\ Step(t, Call([IdleTask EXCEPT !.op = "get_user_connections",
                                     !.pc = "smembers_connections",
                                     !.user_id = user_id]),
            ws_connection, ws_user)

\* GET /active_connections, session.py lines 441-442
get_active_connections(t, user_id) ==
    /\ Free(t)
    /\ Step(t, Call([IdleTask EXCEPT !.op = "get_active_connections",
                                     !.pc = "smembers_connections",
                                     !.user_id = user_id]),
            ws_connection, ws_user)

\* line 214
ConnectionsSmembers(t) ==
    /\ tasks[t].pc = "smembers_connections"
    /\ LET connection_ids == ws_user[tasks[t].user_id].members IN
       \E task \in Iterate([tasks[t] EXCEPT !.connection_ids = connection_ids],
                           "hgetall_connections") :
           Step(t, task, ws_connection, ws_user)

\* lines 217-229: the connections of the list, by their ids
ConnectionsHgetall(t) ==
    /\ tasks[t].pc = "hgetall_connections"
    /\ LET conn_id == tasks[t].connection_id
           conn_data == ws_connection[conn_id]
       IN \E task \in Iterate(
                         IF conn_data.exists
                         THEN [tasks[t] EXCEPT !.connections = @ \cup {conn_id}]
                         ELSE tasks[t],
                         "hgetall_connections") :
             Step(t, task, ws_connection, ws_user)

\* cleanup_stale_connections, lines 398-403
cleanup_stale_connections(t, max_age_seconds) ==
    /\ Free(t)
    /\ Step(t, Call([IdleTask EXCEPT !.op = "cleanup_stale_connections",
                                     !.pc = "scan",
                                     !.max_age_seconds = max_age_seconds,
                                     !.current_time = isoformat(utcnow(now))]),
            ws_connection, ws_user)

\* lines 405-408: scan(match="ws_connection:*"), the keys of the hashes
CleanupScan(t) ==
    /\ tasks[t].pc = "scan"
    /\ LET keys == { c \in ConnIds : ws_connection[c].exists } IN
       \E task \in Iterate([tasks[t] EXCEPT !.connection_ids = keys],
                           "hgetall_key") :
           Step(t, task, ws_connection, ws_user)

\* lines 410-435, for one key: a stale connection is unregistered
CleanupHgetall(t) ==
    /\ tasks[t].pc = "hgetall_key"
    /\ LET conn_data == ws_connection[tasks[t].connection_id] IN
       IF /\ conn_data.exists
          /\ "last_activity" \in DOMAIN conn_data
          /\ is_stale(conn_data, tasks[t].current_time, tasks[t].max_age_seconds)
          /\ get(conn_data, "connection_id") # None
       THEN Step(t, [tasks[t] EXCEPT !.pc = "hgetall",
                                     !.connection_id = conn_data.connection_id],
                 ws_connection, ws_user)
       ELSE \E task \in Iterate(tasks[t], "hgetall_key") :
               Step(t, task, ws_connection, ws_user)

register_connection_intent_reserves(user_id, app_type) ==
    /\ ret' = [op |-> "register_connection_intent", connection_id |-> None,
               user_id |-> user_id,
               value |-> [user_id |-> user_id, app_type |-> app_type,
                          registered_at |-> isoformat(utcnow(now)),
                          status |-> "awaiting_connection"]]
    /\ ws_user' = sadd(ws_user, user_id, "k1")
    /\ UNCHANGED <<redis_pool, ws_connection, now, hset_at, faults, tasks>>
    /\ UNCHANGED <<reqVars, stream, consVars, cfgVars, xaddVars, valVars>>

\* register_connection_intent, lines 47-56: it builds its answer and touches
\* neither self.redis_pool nor anything else
register_connection_intent(user_id, app_type) ==
    /\ ret' = [op |-> "register_connection_intent", connection_id |-> None,
               user_id |-> user_id,
               value |-> [user_id |-> user_id, app_type |-> app_type,
                          registered_at |-> isoformat(utcnow(now)),
                          status |-> "awaiting_connection"]]
    /\ UNCHANGED <<redis_pool, ws_connection, ws_user, now, hset_at, faults, tasks>>
    /\ UNCHANGED <<reqVars, stream, consVars, cfgVars, xaddVars, valVars>>

\* a second passes, between two calls or between two commands of a call:
\* Redis drops the keys whose time to live is over
Tick ==
    /\ now < MaxTime
    /\ now' = now + 1
    /\ ws_connection' = [c \in ConnIds |->
                            IF ws_connection[c].exists /\ ws_connection[c].expire_at <= now + 1
                            THEN NoHash ELSE ws_connection[c]]
    /\ ws_user' = [u \in UserIds |->
                      IF ws_user[u].expire_at <= now + 1 THEN NoSet ELSE ws_user[u]]
    /\ hset_at' = [c \in ConnIds |-> IF ws_connection'[c].exists THEN hset_at[c] ELSE 0]
    /\ UNCHANGED <<redis_pool, faults, ret>>
    /\ UNCHANGED <<reqVars, stream, consVars, cfgVars, xaddVars, valVars, raceVars>>

\* ---------------------------------------------------------- specification

Init ==
    /\ sessions = <<>>
    /\ events = {}
    /\ clock = 1
    /\ redis_client \in {"client", None}
    /\ stream = <<>>
    /\ other_streams = [n \in StreamNames \ {"dictation_stream"} |-> <<>>]
    /\ trimmed = [n \in StreamNames |-> 0]
    /\ reqs = [r \in ReqIds |-> IdleReq]
    /\ group = NoGroup
    /\ cons = [c \in Consumers |-> IdleCons]
    /\ caller = [returned |-> {}, raised |-> {}]
    /\ redis_stream_name = "dictation_stream"
    /\ redis_pool = None
    /\ ws_connection = [c \in ConnIds |-> NoHash]
    /\ ws_user = [u \in UserIds |-> NoSet]
    /\ now = 0
    /\ hset_at = [c \in ConnIds |-> 0]
    /\ faults = 0
    /\ ret = NoCall
    /\ request = NoRequest
    /\ tasks = [t \in Tasks |-> IdleTask]

Next ==
    \E r \in ReqIds :
        \/ study_opened(r)
        \/ study_closed(r)
        \/ CommitSession(r)
        \/ CommitSessionError(r)
        \/ CreateEvent(r)
        \/ CommitEvent(r)
        \/ CommitEventError(r)
        \/ PublishNoClient(r)
        \/ PublishOk(r)
        \/ PublishRaised(r)

Spec == Init /\ [][Next]_vars

\* the steps of a consumer that the event loop takes by itself
ConsumerStep(c) ==
    \/ init_consumer_group(c)
    \/ XReadGroup(c)
    \/ XAck(c)
    \/ Wake(c)

NextStream ==
    \/ Published
    \/ \E stream_name \in StreamNames :
          add_to_stream(stream_name, "open_study",
                        EventData(LastId(stream_name) + 1), max_len)
    \/ \E c \in Consumers :
        \/ \E consumer_name \in {None, c} : read_stream(c, consumer_name)
        \/ ConsumerStep(c)
        \/ InitGroupError(c)
        \/ XReadGroupError(c)
        \/ XAckError(c)
        \/ CallerResume(c)
        \/ CallerThrow(c)
        \/ CallerClose(c)
        \/ CancelInitGroup(c)
        \/ CancelXReadGroup(c)
        \/ CancelXAck(c)
        \/ CancelSleep(c)

SpecStream == Init /\ [][NextStream]_vars

\* the event loop runs a generator that can take a step of its own, and a
\* caller that iterates it with async for asks for the next item
FairSpecStream ==
    /\ SpecStream
    /\ \A c \in Consumers : WF_vars(ConsumerStep(c)) /\ WF_vars(CallerResume(c))

\* the deployment sets REDIS_STREAM_NAME, or leaves the default
InitConfigured ==
    /\ sessions = <<>>
    /\ events = {}
    /\ clock = 1
    /\ redis_client = "client"
    /\ stream = <<>>
    /\ other_streams = [n \in StreamNames \ {"dictation_stream"} |-> <<>>]
    /\ trimmed = [n \in StreamNames |-> 0]
    /\ reqs = [r \in ReqIds |-> IdleReq]
    /\ group = NoGroup
    /\ cons = [c \in Consumers |-> IdleCons]
    /\ caller = [returned |-> {}, raised |-> {}]
    /\ redis_stream_name \in StreamNames
    /\ redis_pool = None
    /\ ws_connection = [c \in ConnIds |-> NoHash]
    /\ ws_user = [u \in UserIds |-> NoSet]
    /\ now = 0
    /\ hset_at = [c \in ConnIds |-> 0]
    /\ faults = 0
    /\ ret = NoCall
    /\ request = NoRequest
    /\ tasks = [t \in Tasks |-> IdleTask]

\* the consumers of the configured stream, scheduled as in FairSpecStream
FairSpecConfigured ==
    /\ InitConfigured /\ [][NextStream]_vars
    /\ \A c \in Consumers : WF_vars(ConsumerStep(c)) /\ WF_vars(CallerResume(c))

\* WebSocketService(redis_pool): the registry with or without its pool
InitRegistry ==
    /\ sessions = <<>>
    /\ events = {}
    /\ clock = 1
    /\ redis_client = None
    /\ stream = <<>>
    /\ other_streams = [n \in StreamNames \ {"dictation_stream"} |-> <<>>]
    /\ trimmed = [n \in StreamNames |-> 0]
    /\ reqs = [r \in ReqIds |-> IdleReq]
    /\ group = NoGroup
    /\ cons = [c \in Consumers |-> IdleCons]
    /\ caller = [returned |-> {}, raised |-> {}]
    /\ redis_stream_name = "dictation_stream"
    /\ redis_pool \in {"pool", None}
    /\ ws_connection = [c \in ConnIds |-> NoHash]
    /\ ws_user = [u \in UserIds |-> NoSet]
    /\ now = 0
    /\ hset_at = [c \in ConnIds |-> 0]
    /\ faults = 0
    /\ ret = NoCall
    /\ request = NoRequest
    /\ tasks = [t \in Tasks |-> IdleTask]

\* the commands of the calls in flight
Command(t) ==
    \/ RegisterHset(t)
    \/ RegisterExpireConnection(t)
    \/ RegisterSadd(t)
    \/ RegisterExpireUser(t)
    \/ DisconnectSmembers(t)
    \/ UnregisterHgetall(t)
    \/ UnregisterSrem(t)
    \/ UnregisterDelete(t)
    \/ UpdateExists(t)
    \/ UpdateNow(t)
    \/ UpdateHset(t)
    \/ UpdateExpire(t)
    \/ StatusSmembers(t)
    \/ StatusHgetall(t)
    \/ ConnectionsSmembers(t)
    \/ ConnectionsHgetall(t)
    \/ CleanupScan(t)
    \/ CleanupHgetall(t)

\* the calls of the service, each begun when the one before it has returned
\* or raised, while the clock goes on and at most MaxFaults commands raise;
\* the connections are dictation connections
NextRegistry ==
    \/ \E connection_id \in ConnIds, user_id \in UserIds :
          register_connection(1, connection_id, user_id, "dictation")
    \/ \E connection_id \in ConnIds : unregister_connection(1, connection_id)
    \/ \E connection_id \in ConnIds : update_connection_activity(1, connection_id)
    \/ \E user_id \in UserIds : disconnect_user_connections(1, user_id)
    \/ \E max_age_seconds \in MaxAges : cleanup_stale_connections(1, max_age_seconds)
    \/ \E user_id \in UserIds : notify_dictation_app(1, user_id)
    \/ \E user_id \in UserIds, app_type \in WsAppTypes :
          get_connection_status(1, user_id, app_type)
    \/ \E user_id \in UserIds : get_user_connections(1, user_id)
    \/ Command(1)
    \/ CommandError(1)
    \/ Done(1)
    \/ Tick

SpecRegistry == InitRegistry /\ [][NextRegistry]_vars

\* calls that follow one another at once, the caller keeping what the call
\* before returned
NextSequence ==
    \/ \E connection_id \in ConnIds, user_id \in UserIds, app_type \in WsAppTypes :
          register_connection(1, connection_id, user_id, app_type)
    \/ \E connection_id \in ConnIds : unregister_connection(1, connection_id)
    \/ \E connection_id \in ConnIds : update_connection_activity(1, connection_id)
    \/ \E user_id \in UserIds : disconnect_user_connections(1, user_id)
    \/ \E max_age_seconds \in MaxAges : cleanup_stale_connections(1, max_age_seconds)
    \/ \E user_id \in UserIds : notify_dictation_app(1, user_id)
    \/ \E user_id \in UserIds, app_type \in WsAppTypes :
          get_connection_status(1, user_id, app_type)
    \/ \E user_id \in UserIds : get_user_connections(1, user_id)
    \/ Command(1)
    \/ Return(1)

SpecSequence == InitRegistry /\ [][NextSequence]_vars

\* the requests of a session that an earlier request has stored
InitExisting ==
    /\ sessions = ("s1" :> [userid |-> "u1", created_at |-> 0, last_updated |-> 0])
    /\ events = {}
    /\ clock = 1
    /\ redis_client \in {"client", None}
    /\ stream = <<>>
    /\ other_streams = [n \in StreamNames \ {"dictation_stream"} |-> <<>>]
    /\ trimmed = [n \in StreamNames |-> 0]
    /\ reqs = [r \in ReqIds |-> IdleReq]
    /\ group = NoGroup
    /\ cons = [c \in Consumers |-> IdleCons]
    /\ caller = [returned |-> {}, raised |-> {}]
    /\ redis_stream_name = "dictation_stream"
    /\ redis_pool = None
    /\ ws_connection = [c \in ConnIds |-> NoHash]
    /\ ws_user = [u \in UserIds |-> NoSet]
    /\ now = 0
    /\ hset_at = [c \in ConnIds |-> 0]
    /\ faults = 0
    /\ ret = NoCall
    /\ request = NoRequest
    /\ tasks = [t \in Tasks |-> IdleTask]

SpecExisting == InitExisting /\ [][Next]_vars

\* the requests next to the polling of GET /session/state
RequestStep(r) ==
    \/ study_opened(r)
    \/ study_closed(r)
    \/ CommitSession(r)
    \/ CommitSessionError(r)
    \/ CreateEvent(r)
    \/ CommitEvent(r)
    \/ CommitEventError(r)
    \/ PublishNoClient(r)
    \/ PublishOk(r)
    \/ PublishRaised(r)

NextQuery ==
    \/ \E r \in 1..MaxQueryReqs : RequestStep(r)
    \/ \E user_info \in Claims : GetSessionState(user_info)
    \/ \E user_info \in Claims : GetSessionStateError(user_info)

SpecQuery == Init /\ [][NextQuery]_vars

\* the bodies of POST study_opened and POST study_closed
TargetFields == {Missing} \cup { Given(t) : t \in TargetInputs }

OpenBodies ==
    [study_id : FieldInputs, patient_id : FieldInputs,
     patient_dob : {Missing, Given(<<"1">>)},
     accession_number : FieldInputs, current_study_name : FewInputs,
     source : FieldInputs, target : TargetFields]

CloseBodies ==
    [study_id : FieldInputs, source : FieldInputs, target : TargetFields,
     patient_id : FewInputs, accession_number : FewInputs]

NextValidate ==
    \/ ParseStudyOpened(OpenBodies)
    \/ ParseStudyClosed(CloseBodies)

SpecValidate == Init /\ [][NextValidate]_vars

\* the requests of a user whose session marker names the session of another
\* user, who has opened a study under it
InitForeign ==
    /\ sessions = ("s1" :> [userid |-> "u2", created_at |-> 0, last_updated |-> 0])
    /\ events = { [event_id |-> "ev0", session_id |-> "s1", userid |-> "u2",
                   event |-> "open_study", datetime |-> 0,
                   target |-> <<"dictation", "worklist">>] }
    /\ clock = 1
    /\ redis_client \in {"client", None}
    /\ stream = <<>>
    /\ other_streams = [n \in StreamNames \ {"dictation_stream"} |-> <<>>]
    /\ trimmed = [n \in StreamNames |-> 0]
    /\ reqs = [r \in ReqIds |-> IdleReq]
    /\ group = NoGroup
    /\ cons = [c \in Consumers |-> IdleCons]
    /\ caller = [returned |-> {}, raised |-> {}]
    /\ redis_stream_name = "dictation_stream"
    /\ redis_pool = None
    /\ ws_connection = [c \in ConnIds |-> NoHash]
    /\ ws_user = [u \in UserIds |-> NoSet]
    /\ now = 0
    /\ hset_at = [c \in ConnIds |-> 0]
    /\ faults = 0
    /\ ret = NoCall
    /\ request = NoRequest
    /\ tasks = [t \in Tasks |-> IdleTask]

SpecForeign == InitForeign /\ [][Next]_vars

\* the endpoints of the router, with the services its providers hand out
InitEndpoints ==
    /\ Init
    /\ redis_pool = get_websocket_service

NextEndpoints ==
    \/ \E r \in 1..MaxQueryReqs : RequestStep(r)
    \/ \E t \in Tasks :
          \/ \E user_id \in UserIds, app_id \in WsAppTypes :
                get_websocket_status(t, user_id, app_id)
          \/ \E user_id \in UserIds : get_active_connections(t, user_id)
          \/ \E user_id \in UserIds : logout_user(t, user_id)
          \/ Done(t)

SpecEndpoints == InitEndpoints /\ [][NextEndpoints]_vars

\* calls of the registry that interleave, on a registry that holds the
\* connection k1 of u1
InitRace ==
    /\ sessions = <<>>
    /\ events = {}
    /\ clock = 1
    /\ redis_client = None
    /\ stream = <<>>
    /\ other_streams = [n \in StreamNames \ {"dictation_stream"} |-> <<>>]
    /\ trimmed = [n \in StreamNames |-> 0]
    /\ reqs = [r \in ReqIds |-> IdleReq]
    /\ group = NoGroup
    /\ cons = [c \in Consumers |-> IdleCons]
    /\ caller = [returned |-> {}, raised |-> {}]
    /\ redis_stream_name = "dictation_stream"
    /\ redis_pool \in {"pool", None}
    /\ LET reg == Registered([conn |-> [c \in ConnIds |-> NoHash],
                              user |-> [u \in UserIds |-> NoSet]],
                             "k1", "u1", "dictation", 0)
       IN ws_connection = reg.conn /\ ws_user = reg.user
    /\ now = 0
    /\ hset_at = [c \in ConnIds |-> 0]
    /\ faults = 0
    /\ ret = NoCall
    /\ request = NoRequest
    /\ tasks = [t \in Tasks |-> IdleTask]

NextRace ==
    \/ \E t \in Tasks, connection_id \in ConnIds, user_id \in UserIds :
          register_connection(t, connection_id, user_id, "dictation")
    \/ \E t \in Tasks, connection_id \in ConnIds : unregister_connection(t, connection_id)
    \/ \E t \in Tasks, user_id \in UserIds : disconnect_user_connections(t, user_id)
    \/ \E t \in Tasks :
          \/ RegisterHset(t)
          \/ RegisterExpireConnection(t)
          \/ RegisterSadd(t)
          \/ RegisterExpireUser(t)
          \/ DisconnectSmembers(t)
          \/ UnregisterHgetall(t)
          \/ UnregisterSrem(t)
          \/ UnregisterDelete(t)
    \/ \E user_id \in UserIds, app_type \in WsAppTypes :
          register_connection_intent(user_id, app_type)

SpecRace == InitRace /\ [][NextRace]_vars

\* the calls of the service and of its endpoints for one user, interleaved
\* with one another at the awaits, on a registry that holds the connection k1
\* of u1
NextConcurrent ==
    \E t \in Tasks, user_id \in {"u1"} :
        \/ \E connection_id \in ConnIds, app_type \in WsAppTypes :
              register_connection(t, connection_id, user_id, app_type)
        \/ \E connection_id \in ConnIds : unregister_connection(t, connection_id)
        \/ \E connection_id \in ConnIds : update_connection_activity(t, connection_id)
        \/ disconnect_user_connections(t, user_id)
        \/ \E max_age_seconds \in MaxAges :
              cleanup_stale_connections(t, max_age_seconds)
        \/ notify_dictation_app(t, user_id)
        \/ \E app_type \in WsAppTypes : get_connection_status(t, user_id, app_type)
        \/ get_user_connections(t, user_id)
        \/ \E app_id \in WsAppTypes : get_websocket_status(t, user_id, app_id)
        \/ get_active_connections(t, user_id)
        \/ logout_user(t, user_id)
        \/ Command(t)
        \/ Done(t)

SpecConcurrent == InitRace /\ [][NextConcurrent]_vars

\* ------------------------------------------------------------------ claims

\* the request has committed its event row
Committed(r) ==
    \/ reqs[r].pc = "publish"
    \/ reqs[r].pc = "done" /\ reqs[r].outcome = "ok"

StreamEventIds == { stream[i].event_id : i \in 1..Len(stream) }

\* C1: a stream publish for an event is attempted only after the event's row
\* has committed to the Event Log, and an event whose commit failed never has
\* a message on the stream.
C1_PublishAfterCommit ==
    /\ StreamEventIds \subseteq EventIds(events)
    /\ \A r \in ReqIds :
        /\ (reqs[r].pc = "publish" \/ reqs[r].xadd # None)
              => reqs[r].event_id \in EventIds(events)
        /\ reqs[r].error = "event:StorageError"
              => /\ reqs[r].pc = "done"
                 /\ reqs[r].outcome = "error"
                 /\ reqs[r].xadd = None
                 /\ reqs[r].event_id \notin StreamEventIds

\* a request whose event commit failed, next to one whose event was published
C1_Witness ==
    \E r, q \in ReqIds :
        /\ reqs[r].error = "event:StorageError"
        /\ reqs[r].event_id \notin EventIds(events)
        /\ reqs[q].xadd = "added"
        /\ reqs[q].event_id \in StreamEventIds

\* C2: when the stream transport is unavailable at publish time (no client, or
\* xadd raises), the request still succeeds with a null stream message id and
\* its committed event is still in the Event Log under its session; without a
\* client nothing of the event is on the stream.
C2_PublishDegrades ==
    \A r \in ReqIds :
        reqs[r].xadd \in {"no_client", "raised"}
            => /\ reqs[r].outcome = "ok"
               /\ reqs[r].error = None
               /\ reqs[r].redis_event_id = None
               /\ reqs[r].event_id \in EventIds(list_events(reqs[r].session_id))
               /\ reqs[r].xadd = "no_client"
                     => reqs[r].event_id \notin StreamEventIds

\* xadd raised for one request's event, which is in the log and not on the stream
C2_Witness ==
    \E r \in ReqIds :
        /\ reqs[r].xadd = "raised"
        /\ reqs[r].outcome = "ok"
        /\ reqs[r].event_id \in EventIds(events)
        /\ reqs[r].event_id \notin StreamEventIds

\* C3: if the event append of a request fails, the Session store is as it was
\* before the request; in particular the session id the request generated for
\* itself names no Session row.
C3_AtomicEventAndSession ==
    \A r \in ReqIds :
        (reqs[r].error = "event:StorageError"
            /\ reqs[r].session_id = uuid4(r, "session"))
          => reqs[r].session_id \notin DOMAIN sessions

\* C4: concurrent get_or_create_session calls with the same session marker
\* never fail on a duplicate key.
C4_UpsertNeverDuplicateKey ==
    \A r \in ReqIds : reqs[r].error # "session:IntegrityError"

\* the events committed by the requests made with these claims
CommittedBy(user_info) ==
    { reqs[r].event_id : r \in { q \in ReqIds : /\ Committed(q)
                                                /\ reqs[q].user_info = user_info } }

\* the events of the requests made with these claims that the Event Log holds
DurableBy(user_info) ==
    { reqs[r].event_id : r \in { q \in ReqIds :
                                    /\ reqs[q].event_id \in EventIds(events)
                                    /\ reqs[q].user_info = user_info } }

\* C5 as stated: get_session_state for a user's claims returns exactly the
\* events that the user's requests have durably committed, those of every
\* successful request among them, with or without a session marker.
C5_StateShowsCommitted ==
    \A user_info \in Claims :
        /\ EventIds(get_session_state(user_info)) = DurableBy(user_info)
        /\ CommittedBy(user_info) \subseteq EventIds(get_session_state(user_info))

\* C5 as amended: for claims that carry a session marker get_session_state
\* returns exactly the events that the requests made under that marker have
\* durably committed, those of every successful request among them, whatever
\* became of their stream publishes; for claims without a marker it returns
\* no events.
C5_StateShowsCommittedUnderMarker ==
    \A user_info \in Claims :
        IF user_info.session_state = None
        THEN get_session_state(user_info) = {}
        ELSE /\ EventIds(get_session_state(user_info)) = DurableBy(user_info)
             /\ CommittedBy(user_info) \subseteq EventIds(get_session_state(user_info))

\* two requests under one marker, one publish failed, one made: both events
\* are returned
C5_Witness ==
    \E r, q \in ReqIds :
        /\ reqs[r].xadd = "raised" /\ reqs[q].xadd = "added"
        /\ reqs[r].user_info.session_state # None
        /\ reqs[q].user_info = reqs[r].user_info
        /\ {reqs[r].event_id, reqs[q].event_id}
              \subseteq EventIds(get_session_state(reqs[r].user_info))

\* C6: a request whose target list is empty or holds a value outside
\* {viewer, dictation, worklist, admin} is rejected as a client error and
\* leaves the Session store, the Event Log and the stream unchanged.
C6_InvalidTargetRejected ==
    [][ \A r \in ReqIds :
          (reqs[r].pc = "idle" /\ reqs'[r].pc # "idle")
            => LET t == reqs'[r].target IN
               (Len(t) = 0 \/ \E i \in 1..Len(t) :
                                 t[i] \notin {"viewer", "dictation", "worklist", "admin"})
                 => /\ reqs'[r].pc = "done"
                    /\ reqs'[r].outcome = "rejected"
                    /\ reqs'[r].error = "ValidationError"
                    /\ UNCHANGED <<sessions, events, stream>> ]_vars

\* a list with a valid and an invalid target was rejected after the store had
\* taken a session and an event
C6_Witness ==
    \E r \in ReqIds :
        /\ reqs[r].outcome = "rejected"
        /\ reqs[r].target = <<"viewer", "bogus">>
        /\ events # {}

\* the caller's processing of the message failed and no consumer holds it
Failed(id) ==
    /\ Pending(id)
    /\ \E c \in Consumers :
          /\ [id |-> id, consumer |-> c] \in group.pel
          /\ \/ id \in caller.raised
             \/ cons[c].pc = "done"

Yielded(id) ==
    \E c \in Consumers : cons[c].pc = "yield_msg" /\ Head(cons[c].batch) = id

\* some consumer of the group is in its read loop
Reading ==
    \E c \in Consumers : cons[c].pc \in {"read", "yield_msg", "yield_none", "ack", "sleep"}

\* C7: a message delivered to a consumer of the group and never acknowledged
\* (the consumer stopped, or its processing raised) eventually becomes visible
\* again to some consumer of the group, as long as the group has a consumer
\* that reads.
C7_PendingRedelivered ==
    \A id \in 1..MaxStream : [](Failed(id) => <>(Yielded(id) \/ ~Reading))

\* C8: a yielded message is acknowledged only when the caller's processing
\* returned and the caller resumed the generator; a message whose processing
\* raised stays in the group's pending list.
C8_AckOnlyAfterProcessing ==
    \A id \in 1..MaxStream :
        /\ Acked(id) => id \in caller.returned
        /\ id \in caller.raised => Pending(id)

\* one message acknowledged, another one pending after its processing raised
C8_Witness ==
    \E id, other \in 1..MaxStream :
        /\ Acked(id) /\ id \in caller.returned
        /\ other \in caller.raised /\ Pending(other)

\* C9: cancellation at any suspension point of read_stream ends the generator
\* as a normal termination and never raises to the caller.
C9_CancellationIsNormal ==
    \A c \in Consumers : cons[c].cancelled => cons[c].outcome = "returned"

\* C10: the consecutive-error count never passes the cap; the loop has ended
\* once it reaches the cap; after any successful read it is zero.
C10_BoundedRetries ==
    \A c \in Consumers :
        /\ cons[c].error_count <= 5
        /\ cons[c].error_count >= 5 => cons[c].pc = "done"
        /\ cons[c].pc \in {"yield_msg", "yield_none", "ack"} => cons[c].error_count = 0

\* a consumer that read messages, then failed five reads in a row and ended
C10_Witness ==
    \E c \in Consumers :
        /\ cons[c].error_count = 5
        /\ cons[c].outcome = "returned"
        /\ ~cons[c].cancelled
        /\ \E id \in caller.returned : Acked(id)

\* the loop of consumer c stopped because its retry budget was used up
Exhausted(c) ==
    /\ cons[c].pc = "done"
    /\ ~cons[c].cancelled
    /\ cons[c].error_count >= max_errors

\* the loop of consumer c was cancelled and ended as a normal termination
CancelledNormally(c) ==
    /\ cons[c].pc = "done"
    /\ cons[c].cancelled
    /\ cons[c].outcome = "returned"

\* C11: a consumer whose loop stopped on an exhausted retry budget shows its
\* caller an outcome different from the normal termination that a cancelled
\* consumer shows.
C11_ExhaustionIsFatal ==
    \A c, d \in Consumers :
        (Exhausted(c) /\ CancelledNormally(d)) => cons[c].outcome # cons[d].outcome

\* C12: every entry that publish_to_redis_stream appended is eventually handed
\* by xreadgroup to a consumer of the configured stream's group, as long as
\* the group has a consumer that reads.
C12_PublishedIsDelivered ==
    \A id \in 1..MaxStream :
        [](LastId("dictation_stream") >= id
              => <>((redis_stream_name = "dictation_stream" /\ Delivered(id))
                    \/ ~Reading))

\* C13: the stream never holds more entries than the configured maximum.
C13_StreamLengthBounded == Len(stream) <= max_len

\* C14: consumer-group setup creates a missing group at the beginning of the
\* stream with nothing pending, and leaves an existing group's read cursor and
\* pending set as they are, without an error.
C14_GroupSetupIdempotent ==
    [][ \A c \in Consumers :
          (cons[c].pc = "init_group" /\ cons'[c].pc = "read")
            => IF group.exists
               THEN group' = group
               ELSE group' = NewGroup ]_vars

\* a consumer passed setup and waits to read, while the group's cursor has
\* moved and another consumer holds pending messages
C14_Witness ==
    \E c, d \in Consumers :
        /\ cons[c].pc = "read" /\ cons[c].outcome = "running"
        /\ group.last_delivered = MaxStream
        /\ \E p \in group.pel : p.consumer = d
        /\ \A p \in group.pel : p.consumer # c
        /\ caller.returned = {} /\ caller.raised = {}
        /\ cons[d].pc = "yield_msg"

\* the hash of connection c exists and has type a
OfType(c, a) == ws_connection[c].exists /\ get(ws_connection[c], "app_type") = a

\* connection_id is the only member of user_id's set whose hash has app_type
OnlyOfType(connection_id, user_id, app_type) ==
    \A k \in ws_user[user_id].members : OfType(k, app_type) => k = connection_id

\* the members of u's set that have a hash
Live(u) == { c \in ws_user[u].members : ws_connection[c].exists }

\* no call is in flight
Quiet == \A t \in Tasks : tasks[t].pc \in {"idle", "done"}

\* the call of task t has just returned from op
After(t, op) ==
    tasks[t].pc = "done" /\ tasks[t].op = op /\ tasks[t].outcome = "returned"

\* C15: a get_connection_status(u, a) that follows register_connection(c, u, a)
\* at once, with c the only connection of type a in u's set, answers
\* connected with connection id c; one that follows unregister_connection(c)
\* never answers with c, and answers not connected when no other member of
\* u's set has type a.
C15_StatusFollowsRegistration ==
    [][ (tasks[1].pc # "done" /\ After(1, "get_connection_status")'
           /\ redis_pool # None)
          => LET u == tasks'[1].user_id
                 a == tasks'[1].app_type
                 c == ret.connection_id
             IN /\ (/\ ret.op = "register_connection"
                    /\ ret.user_id = u
                    /\ ret.value.app_type = a
                    /\ ret.value.connected_at = isoformat(utcnow(now))
                    /\ OnlyOfType(c, u, a))
                      => tasks'[1].status = [connected |-> TRUE, session_id |-> c]
                /\ ret.op = "unregister_connection"
                      => /\ tasks'[1].status.session_id # c
                         /\ (\A k \in ws_user[u].members \ {c} : ~OfType(k, a))
                               => tasks'[1].status = NotConnected ]_vars

\* a user with a viewer connection has registered a dictation connection and
\* is reported as connected with it
C15_Witness ==
    \E c \in ConnIds :
        /\ After(1, "get_connection_status")
        /\ tasks[1].app_type = "dictation"
        /\ ret.op = "register_connection"
        /\ ret.connection_id = c
        /\ tasks[1].status = [connected |-> TRUE, session_id |-> c]
        /\ Cardinality(Live(tasks[1].user_id)) = 2

\* C16: unregister_connection returns whether a hash existed, leaves no hash
\* and no membership in the owner's set; called again right after a call
\* that returned true it returns false, raises nothing and changes nothing.
C16_UnregisterIdempotent ==
    [][ (redis_pool # None /\ tasks'[1].op = "unregister_connection"
           /\ tasks[1] # tasks'[1])
          => LET c == tasks'[1].connection_id
                 again == /\ ret.op = "unregister_connection"
                          /\ ret.connection_id = c
                          /\ ret.value = TRUE
             IN /\ (tasks[1].pc # "done" /\ tasks'[1].pc = "done")
                     => /\ tasks'[1].outcome = "returned"
                        /\ tasks'[1].removed = ws_connection[c].exists
                        /\ ~ws_connection'[c].exists
                        /\ ws_connection[c].exists
                             => c \notin ws_user'[ws_connection[c].user_id].members
                        /\ again => tasks'[1].removed = FALSE
                /\ again => UNCHANGED <<ws_connection, ws_user>> ]_vars

\* the second of two calls returned false, while another connection of the
\* registry stays registered
C16_Witness ==
    /\ redis_pool # None
    /\ After(1, "unregister_connection")
    /\ ret.op = "unregister_connection"
    /\ ret.connection_id = tasks[1].connection_id
    /\ ret.value = TRUE
    /\ tasks[1].removed = FALSE
    /\ \A u \in UserIds : ret.connection_id \notin ws_user[u].members
    /\ \E k \in ConnIds : ws_connection[k].exists

\* the hashes that a step removes
Removed == { c \in ConnIds : ws_connection[c].exists /\ ~ws_connection'[c].exists }

\* C17: disconnect_user_connections(u) counts every hash it removes (and at
\* most one more per unregister: a hash that it read and that expired before
\* the delete), and when it returns no registered connection names u and
\* get_user_connections(u) has nothing to return.
C17_DisconnectRemovesAll ==
    [][ (redis_pool # None /\ tasks'[1].op = "disconnect_user_connections"
           /\ tasks[1] # tasks'[1] /\ tasks'[1].outcome # "failed")
          => LET u == tasks'[1].user_id
                 before == IF tasks[1].pc = "idle" THEN 0 ELSE tasks[1].count
             IN
             /\ tasks'[1].count >= before + Cardinality(Removed)
             /\ tasks'[1].count <= before + 1
             /\ tasks'[1].count > before => tasks[1].pc = "delete"
             /\ tasks'[1].pc = "done"
                  => /\ Value(tasks'[1]) = tasks'[1].count
                     /\ \A c \in ws_user'[u].members : ~ws_connection'[c].exists
                     /\ \A c \in ConnIds :
                           ~(ws_connection'[c].exists
                               /\ get(ws_connection'[c], "user_id") = u) ]_vars

\* the seconds since the last activity that the hash of connection c records
Age(c) == now - ws_connection[c].last_activity.str

\* C18: cleanup_stale_connections(max_age) counts every hash it removes, and
\* when it returns no hash is left whose last activity is more than max_age
\* seconds old, and no younger hash has been removed.
C18_CleanupRemovesStale ==
    [][ (redis_pool # None /\ tasks'[1].op = "cleanup_stale_connections"
           /\ tasks[1] # tasks'[1] /\ tasks'[1].outcome # "failed")
          => /\ tasks'[1].count = (IF tasks[1].pc = "idle" THEN 0 ELSE tasks[1].count)
                                      + Cardinality(Removed)
             /\ \A c \in Removed : Age(c) > tasks'[1].max_age_seconds
             /\ tasks'[1].pc = "done"
                  => /\ Value(tasks'[1]) = tasks'[1].count
                     /\ \A c \in ConnIds :
                           ws_connection'[c].exists
                              => Age(c) <= tasks'[1].max_age_seconds ]_vars

\* the connections that the query of task 1 reports by the hash it reads in
\* this step
ReportedNow ==
    IF tasks'[1].op = "get_user_connections"
    THEN tasks'[1].connections \ tasks[1].connections
    ELSE IF /\ tasks'[1].op = "get_connection_status"
            /\ tasks'[1].status.connected /\ ~tasks[1].status.connected
    THEN {tasks'[1].status.session_id}
    ELSE {}

\* C19: once the calls have returned, a connection id is a member of at most
\* one user's set, and every connection that get_user_connections or
\* get_connection_status reports for a user has a hash that names that user.
C19_OneOwner ==
    [][ /\ Quiet'
          => \A c \in ConnIds :
                Cardinality({ u \in UserIds : c \in ws_user'[u].members }) <= 1
        /\ \A c \in ReportedNow :
              get(ws_connection[c], "user_id") = tasks'[1].user_id ]_vars

\* C20: every connection that get_user_connections or get_connection_status
\* reports has a hash when it is read, and the last write to the hash (the
\* HSET of a register or of an activity update) was less than
\* connection_expire_seconds before.
C20_NoStaleReported ==
    [][ \A c \in ReportedNow :
          /\ ws_connection[c].exists
          /\ now - hset_at[c] < connection_expire_seconds ]_vars

\* C21: a request that was answered successfully has triggered the
\* Notification Dispatcher (notify_dictation_app) for its targets.
C21_RequestNotifies ==
    \A r \in ReqIds :
        (reqs[r].pc = "done" /\ reqs[r].outcome = "ok")
            => ret.op = "notify_dictation_app"

\* C22: a notify_dictation_app(u) that returns true found a hash of type
\* dictation, one that returns false returns while u's set names no live
\* connection of type dictation (or without a pool); it raises nothing and
\* none of its steps changes the registry.
C22_NotifyReportsLiveTarget ==
    [][ \A t \in Tasks :
          (tasks'[t].op = "notify_dictation_app" /\ tasks[t] # tasks'[t])
            => /\ UNCHANGED <<ws_connection, ws_user>>
               /\ tasks'[t].pc = "done"
                    => LET u == tasks'[t].user_id IN
                       /\ Value(tasks'[t]) \in BOOLEAN
                       /\ Value(tasks'[t])
                            => /\ redis_pool # None
                               /\ \E c \in ConnIds : OfType(c, "dictation")
                       /\ ~Value(tasks'[t])
                            => \/ redis_pool = None
                               \/ ~\E c \in ws_user[u].members :
                                      OfType(c, "dictation") ]_vars

\* C30: once the calls have returned, a connection whose hash is alive is a
\* member of its owner's set: the writes that keep the hash alive keep the
\* set alive too.
C30_OwnerSetKeepsLiveConnection ==
    Quiet =>
        \A c \in ConnIds :
            (ws_connection[c].exists /\ "user_id" \in DOMAIN ws_connection[c])
                => c \in ws_user[ws_connection[c].user_id].members

\* C23: when get_or_create_session returns, the session id is the marker of
\* the claims, or else an id freshly generated for this call that named no
\* row; a missing row has been created with the user of the claims, and an
\* existing row has changed in last_updated only.
C23_GetOrCreateSession ==
    [][ \A r \in ReqIds :
          (reqs[r].pc = "commit_session" /\ reqs'[r].pc = "create_event")
            => LET marker == reqs[r].user_info.session_state
                   sid == reqs'[r].session_id
               IN /\ marker # None => sid = marker
                  /\ marker = None
                       => (sid = uuid4(r, "session") /\ sid \notin DOMAIN sessions)
                  /\ sid \notin DOMAIN sessions
                       => /\ DOMAIN sessions' = DOMAIN sessions \cup {sid}
                          /\ sessions'[sid].userid = reqs[r].user_info.sub
                  /\ sid \in DOMAIN sessions
                       => /\ DOMAIN sessions' = DOMAIN sessions
                          /\ sessions'[sid].userid = sessions[sid].userid
                          /\ sessions'[sid].created_at = sessions[sid].created_at
                  /\ \A other \in DOMAIN sessions :
                        other # sid => sessions'[other] = sessions[other] ]_vars

\* a request created the row of marker s1 and a later one touched it
C23_Witness ==
    /\ "s1" \in DOMAIN sessions
    /\ sessions["s1"].last_updated > sessions["s1"].created_at
    /\ \A r \in ReqIds : reqs[r].session_id = "s1" /\ reqs[r].pc # "commit_session"

\* C24: no step removes or changes a committed event, and no two committed
\* events share an event_id.
C24_EventLogOnlyGrows ==
    [][ /\ events \subseteq events'
        /\ \A e1, e2 \in events' : e1.event_id = e2.event_id => e1 = e2 ]_vars

\* two requests have appended their events
C24_Witness ==
    /\ Cardinality(events) = 2
    /\ Cardinality(EventIds(events)) = 2

\* C28: a request whose session upsert failed has ended as an error without an
\* event and without a stream entry, and a request is at the event append or
\* the publish only with its session row stored.
C28_NoEventAfterFailedUpsert ==
    \A r \in ReqIds :
        /\ reqs[r].error \in {"session:StorageError", "session:IntegrityError"}
              => /\ reqs[r].pc = "done"
                 /\ reqs[r].outcome = "error"
                 /\ reqs[r].event_id = None
                 /\ reqs[r].xadd = None
                 /\ uuid4(r, "event") \notin EventIds(events) \cup StreamEventIds
        /\ reqs[r].pc \in {"create_event", "commit_event", "publish"}
              => reqs[r].session_id \in DOMAIN sessions

\* the upsert of one request failed on the key while the other request
\* appended and published its event
C28_Witness ==
    \E r, q \in ReqIds :
        /\ reqs[r].error = "session:IntegrityError"
        /\ reqs[q].outcome = "ok"
        /\ reqs[q].xadd = "added"
        /\ Cardinality(events) = 1

\* C29: the last_updated of a session never decreases, whatever the order in
\* which the requests of the session touch and commit.
C29_LastUpdatedMonotonic ==
    [][ \A sid \in DOMAIN sessions :
          sessions'[sid].last_updated >= sessions[sid].last_updated ]_vars

\* C26: every events list that get_session_state can return is ordered by the
\* events' datetime, oldest first.
C26_EventsOldestFirst ==
    \A user_info \in Claims :
        \A seq \in get_session_state_events(user_info) :
            \A i, j \in 1..Len(seq) :
                i < j => format_event(seq[i]).datetime.str
                            <= format_event(seq[j]).datetime.str

\* C25: a call of get_session_state stores nothing: no Session row appears and
\* sessions, events and the stream stay as they were; without a session marker
\* it answers with the empty events list and never with an error, and with a
\* marker that has no Session row its answer is the empty events list.
C25_GetSessionStateReadOnly ==
    [][ reqs' = reqs =>
          /\ UNCHANGED <<sessions, events, stream, clock, redis_client>>
          /\ ret'.op = "get_session_state"
          /\ LET marker == ret'.user_info.session_state
                 value == ret'.value
             IN /\ marker = None =>
                      /\ value.status = 200
                      /\ value.session_id = None
                      /\ value.events = <<>>
                /\ (marker # None /\ marker \notin DOMAIN sessions
                       /\ value.status = 200) =>
                      /\ value.session_id = marker
                      /\ value.events = <<>> ]_vars

C25_Witness ==
    /\ ret.op = "get_session_state"
    /\ ret.value.status = 200
    /\ ret.user_info.session_state = "s1"
    /\ ret.value.events = <<>>
    /\ "s1" \notin DOMAIN sessions
    /\ \E r \in ReqIds : reqs[r].pc = "commit_session"

\* a string with a character that is not whitespace
NonBlank(field) ==
    /\ field.given
    /\ \E i \in 1..Len(field.v) : field.v[i] \notin Whitespace

\* C27: an accepted study_opened body has study_id, patient_id,
\* accession_number and source present and not blank; a study_closed body is
\* accepted exactly when study_id and source are present and not blank and the
\* target list is valid, whatever it says about patient_id and
\* accession_number.
C27_RequiredFields ==
    /\ (request.model = "StudyOpenedRequest" /\ request.parsed.valid) =>
          /\ NonBlank(request.body.study_id)
          /\ NonBlank(request.body.patient_id)
          /\ NonBlank(request.body.accession_number)
          /\ NonBlank(request.body.source)
    /\ request.model = "StudyClosedRequest" =>
          (request.parsed.valid <=>
              /\ NonBlank(request.body.study_id)
              /\ NonBlank(request.body.source)
              /\ request.body.target.given
              /\ validate_target_apps(request.body.target.v))

C27_Witness ==
    /\ request.model = "StudyClosedRequest"
    /\ request.parsed.valid
    /\ request.body.study_id = Given(<<" ", "a", "\f">>)
    /\ request.parsed.study_id = <<"a">>
    /\ ~request.body.patient_id.given
    /\ request.body.accession_number = Given(<<" ">>)

\* the delay of a backoff that doubles from the first delay of 2 seconds and
\* is capped at 30
Doubling(n) == IF 2 ^ n < 30 THEN 2 ^ n ELSE 30

\* C32: the delay a consumer sleeps after its n-th consecutive read error
\* doubles with every error, and is never more than 30 seconds.
C32_BackoffExponential ==
    \A c \in Consumers :
        cons[c].pc = "sleep" =>
            /\ cons[c].delay <= 30
            /\ cons[c].delay = Doubling(cons[c].error_count)

\* the calls made so far are all calls of register_connection
OnlyRegisters ==
    \A t \in Tasks : tasks[t].op \in {None, "register_connection"}

Completed(t) == tasks[t].pc = "done" /\ tasks[t].outcome = "returned"

\* C31: when calls of register_connection for one user with different
\* connection ids have interleaved in any order and have returned, with no
\* call that removes anything, every one of their ids is a member of the
\* user's set.
C31_RegistersDoNotLoseMembers ==
    \A t1, t2 \in Tasks :
        (/\ OnlyRegisters
         /\ t1 # t2
         /\ Completed(t1) /\ Completed(t2)
         /\ tasks[t1].user_id = tasks[t2].user_id
         /\ tasks[t1].connection_id # tasks[t2].connection_id)
        => /\ tasks[t1].connection_id \in ws_user[tasks[t1].user_id].members
           /\ tasks[t2].connection_id \in ws_user[tasks[t1].user_id].members

C31_Witness ==
    /\ OnlyRegisters
    /\ Completed(1) /\ Completed(2)
    /\ tasks[1].user_id = "u2" /\ tasks[2].user_id = "u2"
    /\ tasks[1].connection_id = "k2" /\ tasks[2].connection_id = "k1"
    /\ ws_user["u2"].members = {"k1", "k2"}

\* C33: register_connection_intent changes no connection record and no
\* user's set, answers "awaiting_connection" whatever calls are in flight and
\* whatever it answered before, and can be called in every state.
C33_IntentPersistsNothing ==
    [][ tasks' = tasks =>
          /\ UNCHANGED <<ws_connection, ws_user, redis_pool, now>>
          /\ ret'.op = "register_connection_intent"
          /\ ret'.value.status = "awaiting_connection"
          /\ \A user_id \in UserIds, app_type \in WsAppTypes :
                ENABLED register_connection_intent(user_id, app_type) ]_vars

C33_Witness ==
    /\ ret.op = "register_connection_intent"
    /\ ret.user_id = "u1"
    /\ ret.value.status = "awaiting_connection"
    /\ tasks[1].op = "register_connection" /\ tasks[1].pc = "sadd"
    /\ tasks[1].user_id = "u1"
    /\ tasks[2].op = "unregister_connection" /\ tasks[2].pc = "delete"

\* the removals that the calls have reported or counted so far
RECURSIVE Removals(_)
Removals(n) ==
    IF n = 0 THEN 0
    ELSE Removals(n - 1)
         + (IF tasks[n].op = "unregister_connection"
            THEN (IF Completed(n) /\ tasks[n].removed THEN 1 ELSE 0)
            ELSE IF tasks[n].op = "disconnect_user_connections"
            THEN tasks[n].count
            ELSE 0)

\* C36: the removals that unregister_connection and
\* disconnect_user_connections report are never more than the connections
\* that existed: the one registered at the start and one for every call of
\* register_connection.
C36_RemovalsCountedOnce ==
    Removals(MaxTasks)
        <= 1 + Cardinality({ t \in Tasks : tasks[t].op = "register_connection" })

\* C37: when a register_connection and an unregister_connection of the same
\* new connection id have both returned and nothing else was called, either
\* the hash exists and the id is in the set of its user, or there is no hash
\* and the id is in no set.
C37_RegisterUnregisterSequential ==
    \A t1, t2 \in Tasks :
        (/\ tasks[t1].op = "register_connection" /\ Completed(t1)
         /\ tasks[t2].op = "unregister_connection" /\ Completed(t2)
         /\ tasks[t1].connection_id = "k2" /\ tasks[t2].connection_id = "k2"
         /\ \A t \in Tasks \ {t1, t2} : tasks[t].pc = "idle")
        => \/ /\ ws_connection["k2"].exists
              /\ "k2" \in ws_user[tasks[t1].user_id].members
           \/ /\ ~ws_connection["k2"].exists
              /\ \A u \in UserIds : "k2" \notin ws_user[u].members

\* the datetime of the stored event that a stream message is about
OccurredAt(msg) == (CHOOSE e \in events : e.event_id = msg.event_id).datetime

\* C35: two messages of one session are on the stream in the order of the
\* datetimes of their events.
C35_StreamOrderIsEventOrder ==
    \A i, j \in 1..Len(stream) :
        (i < j /\ stream[i].session_id = stream[j].session_id)
            => OccurredAt(stream[i]) <= OccurredAt(stream[j])

\* C38: no two messages of the stream carry the same event_id; a request
\* whose publish succeeded has one message there, and a request whose publish
\* failed has ended and has at most the one message of its only attempt.
C38_PublishedAtMostOnce ==
    /\ \A i, j \in 1..Len(stream) :
          stream[i].event_id = stream[j].event_id => i = j
    /\ \A r \in ReqIds :
          /\ reqs[r].xadd = "added" =>
                Cardinality({ i \in 1..Len(stream) :
                                stream[i].event_id = reqs[r].event_id }) = 1
          /\ reqs[r].xadd = "raised" =>
                /\ reqs[r].pc = "done"
                /\ Cardinality({ i \in 1..Len(stream) :
                                   stream[i].event_id = reqs[r].event_id }) <= 1

C38_Witness ==
    /\ Len(stream) = 2
    /\ stream[1].event_id # stream[2].event_id
    /\ stream[1].session_id = stream[2].session_id
    /\ \A r \in {1, 2} : reqs[r].xadd = "added"

\* C39: the endpoints websocket status, active connections and logout never
\* answer with the error of a service without store handle: their answer is
\* never a 500.
C39_EndpointsHaveStore ==
    \A t \in Tasks :
        (/\ tasks[t].pc = "done"
         /\ tasks[t].op \in {"get_websocket_status", "get_active_connections",
                             "logout_user"})
            => Value(tasks[t]).status = 200

\* C34: every event that a request stores under a session has the userid of
\* the session's owner, and the events that get_session_state returns for the
\* claims of a user whose request was accepted are all events of that user.
C34_EventsBelongToOwner ==
    \A r \in ReqIds :
        (reqs[r].pc = "done" /\ reqs[r].outcome = "ok") =>
            /\ \A e \in events :
                  e.event_id = reqs[r].event_id
                      => e.userid = sessions[e.session_id].userid
            /\ \A e \in get_session_state(reqs[r].user_info) :
                  e.userid = reqs[r].user_info.sub

====
